---- MODULE Spec2Model ----
(***************************************************************************)
(* A model of nuke: the filter (Options.Match), the scanner (Scan), the    *)
(* trash manager (MoveToTrash, Restore, List) and the concurrent deleter   *)
(* (Delete, deleteFilesConcurrently, shredFile, deleteDirectory).          *)
(*                                                                         *)
(* A Go string is a sequence of one-character strings, so that len,        *)
(* filepath.Base, strings.Contains and string comparison are computed      *)
(* and not assumed.  A nil pointer is the empty sequence and a non-nil     *)
(* one a sequence of one element.                                          *)
(***************************************************************************)
EXTENDS Integers, Sequences, FiniteSets, TLC

\* ------------------------------------------------------------------ bounds

\* Largest worker count handed to New.
MaxWorkers == 2
\* Longest candidate list built by hand (lists that bypass the scanner).
MaxCands == 2
\* Largest value the clock behind time.Now reaches.
MaxClock == 2
\* Most filesystem calls that fail in one run.
MaxFaults == 1

\* ------------------------------------------------------------------ strings

None == <<>>

\* The error values: nil, and one per place an error is returned from.
Nil == "nil"

ErrLstat == "lstat"

ErrMove == "failed to move to trash"

ErrRemoveOriginal == "failed to remove original"

ErrSaveMetadata == "failed to save metadata"

ErrRemove == "remove"

ErrOpen == "open"

ErrWrite == "write"

ErrNotFound == "file not found in trash"

ErrStale == "trash file no longer exists"

ErrConflict == "original location already exists"

ErrParent == "failed to create parent directory"

ErrRestore == "failed to restore file"

ErrReadDir == "readdir"

ErrEmpty == "failed to empty trash"

ErrRemoveMetadata == "failed to remove metadata"

ErrMkdir == "mkdir"

Some(x) == <<x>>

Separator == "/"

Min(a, b) == IF a < b THEN a ELSE b

\* The byte value of a character, for Go's string comparison.
Ord(c) ==
  CASE c = "." -> 46 [] c = "/" -> 47
    [] c = "0" -> 48 [] c = "1" -> 49 [] c = "2" -> 50 [] c = "3" -> 51
    [] c = "4" -> 52 [] c = "5" -> 53 [] c = "6" -> 54 [] c = "7" -> 55
    [] c = "8" -> 56 [] c = "9" -> 57 [] c = "_" -> 95
    [] c = "a" -> 97 [] c = "b" -> 98 [] c = "c" -> 99 [] c = "d" -> 100
    [] c = "e" -> 101 [] c = "j" -> 106 [] c = "n" -> 110 [] c = "o" -> 111
    [] c = "r" -> 114 [] c = "s" -> 115 [] c = "t" -> 116
    [] OTHER -> 63

\* s < t for Go strings (bytewise lexicographic order).
RECURSIVE StrLess(_, _)
StrLess(s, t) ==
  IF t = <<>> THEN FALSE
  ELSE IF s = <<>> THEN TRUE
  ELSE IF Head(s) = Head(t) THEN StrLess(Tail(s), Tail(t))
  ELSE Ord(Head(s)) < Ord(Head(t))

HasPrefix(s, pre) == Len(pre) <= Len(s) /\ SubSeq(s, 1, Len(pre)) = pre

HasSuffix(s, suf) ==
  Len(suf) <= Len(s) /\ SubSeq(s, Len(s) - Len(suf) + 1, Len(s)) = suf

\* strings.Contains
Contains(s, sub) ==
  \E i \in 1..(Len(s) - Len(sub) + 1) : SubSeq(s, i, i + Len(sub) - 1) = sub

\* The index of the last separator of p, 0 if it has none.
LastSep(p) ==
  LET S == {i \in 1..Len(p) : p[i] = Separator}
  IN IF S = {} THEN 0 ELSE CHOOSE i \in S : \A j \in S : j <= i

\* filepath.Base of a clean path.
Base(p) ==
  IF p = <<>> THEN <<".">>
  ELSE IF p = <<Separator>> THEN p
  ELSE SubSeq(p, LastSep(p) + 1, Len(p))

\* filepath.Dir of a clean path.
Dir(p) ==
  IF LastSep(p) = 0 THEN <<".">>
  ELSE IF LastSep(p) = 1 THEN <<Separator>>
  ELSE SubSeq(p, 1, LastSep(p) - 1)

\* filepath.Join of a directory and a name.
Join(dir, name) == dir \o <<Separator>> \o name

\* fmt.Sprintf("%d", n) for n >= 0.
RECURSIVE FormatInt(_)
FormatInt(n) ==
  LET digit == <<"0", "1", "2", "3", "4", "5", "6", "7", "8", "9">>
  IN IF n < 10 THEN <<digit[n + 1]>>
     ELSE FormatInt(n \div 10) \o <<digit[(n % 10) + 1]>>

\* x is p itself or lies in the subtree of directory p.
InTree(x, p) == x = p \/ HasPrefix(x, p \o <<Separator>>)

\* x lies strictly below directory p.
IsUnder(x, p) == x # p /\ InTree(x, p)

\* ------------------------------------------------------------------ filesystem

\* int64(maxSizeMB) * 1024 * 1024: the bytes of a megabyte.
MB == 1024 * 1024

\* A filesystem is a function from the paths that exist to their nodes.
\* `mode` holds the permission bits: "rwx", or "---" for a directory that
\* cannot be read.
FileNode(size, data, modTime) ==
  [isDir |-> FALSE, size |-> size, data |-> data, modTime |-> modTime,
   mode |-> "rwx"]

DirNode(modTime) ==
  [isDir |-> TRUE, size |-> 0, data |-> "", modTime |-> modTime,
   mode |-> "rwx"]

\* Mutant: every directory can be read.
UnreadableNever(node) == FALSE

\* os.ReadDir of the directory fails.
Unreadable(node) == node.isDir /\ node.mode = "---"

Root == <<"/", "r">>

PathA == <<"/", "r", "/", "a">>

PathB == <<"/", "r", "/", "b">>

PathD == <<"/", "r", "/", "d">>

PathDA == <<"/", "r", "/", "d", "/", "a">>

PathDC == <<"/", "r", "/", "d", "/", "c">>

PathE == <<"/", "r", "/", "e", "e", "e", "e">>

PathGit == <<"/", "r", "/", ".", "g", "i", "t">>

PathGitC == <<"/", "r", "/", ".", "g", "i", "t", "/", "c">>

\* The tree the runs start from: two files of the same base name, a large
\* file, nested directories and a long-named shallow directory.
InitialFS ==
  (Root :> DirNode(1)) @@ (PathA :> FileNode(3 * MB, "A", 1)) @@
  (PathB :> FileNode(MB, "B", 2)) @@ (PathD :> DirNode(1)) @@
  (PathDA :> FileNode(MB, "DA", 2)) @@ (PathDC :> DirNode(2)) @@
  (PathE :> DirNode(2))

\* The tree of the scans: the same with a repository directory in it.
ScanFS ==
  InitialFS @@ (PathGit :> DirNode(1)) @@ (PathGitC :> FileNode(MB, "C", 1))

PathZ == <<"/", "r", "/", "z">>

\* The tree of the filter runs: the same with an empty file in it.
MatchFS == ScanFS @@ (PathZ :> FileNode(0, "", 1))

\* The function f without the arguments in S.
Without(f, S) == [x \in (DOMAIN f) \ S |-> f[x]]

SubtreePaths(fsys, p) == {x \in DOMAIN fsys : InTree(x, p)}

Children(fsys, p) == {x \in DOMAIN fsys : IsUnder(x, p)}

\* The subtree at p as a function from relative paths (<<>> is p itself).
Subtree(fsys, p) ==
  [rel \in {SubSeq(x, Len(p) + 1, Len(x)) : x \in SubtreePaths(fsys, p)} |->
     fsys[p \o rel]]

\* The filesystem with the tree `body` put at path p.
Graft(fsys, p, body) ==
  [x \in (DOMAIN fsys) \cup {p \o rel : rel \in DOMAIN body} |->
     IF InTree(x, p) /\ SubSeq(x, Len(p) + 1, Len(x)) \in DOMAIN body
     THEN body[SubSeq(x, Len(p) + 1, Len(x))]
     ELSE fsys[x]]

\* The filesystem without the subtree at p.
Prune(fsys, p) == Without(fsys, SubtreePaths(fsys, p))

\* os.Remove succeeds on a file or an empty directory.
CanRemove(fsys, p) ==
  p \in DOMAIN fsys /\ (fsys[p].isDir => Children(fsys, p) = {})

\* ------------------------------------------------------------------ filter

\* filepath.Match for patterns of literal characters, * and ?.
RECURSIVE GlobMatch(_, _)
GlobMatch(pattern, name) ==
  IF pattern = <<>> THEN name = <<>>
  ELSE IF Head(pattern) = "*"
  THEN \/ GlobMatch(Tail(pattern), name)
       \/ /\ name # <<>>
          /\ Head(name) # Separator
          /\ GlobMatch(pattern, Tail(name))
  ELSE /\ name # <<>>
       /\ \/ Head(pattern) = Head(name)
          \/ Head(pattern) = "?" /\ Head(name) # Separator
       /\ GlobMatch(Tail(pattern), Tail(name))

\* Regexp.MatchString for a pattern of literal characters: an unanchored search.
RegexMatch(re, s) == Contains(s, re)

isHidden(path) == Len(Base(path)) > 0 /\ Base(path)[1] = "."

\* The criteria with no filter set.
NoOptions ==
  [SkipHidden |-> FALSE, OlderThan |-> None, NewerThan |-> None,
   SizeFilter |-> 0, SizeOp |-> <<>>, Include |-> <<>>, Exclude |-> <<>>,
   Regex |-> None]

\* Mutant: patterns that are tried on the base name alone.
MatchesAnyBase(patterns, path) ==
  \E i \in 1..Len(patterns) : GlobMatch(patterns[i], Base(path))

\* One of the patterns matches the base name or the full path.
MatchesAny(patterns, path) ==
  \E i \in 1..Len(patterns) :
    GlobMatch(patterns[i], Base(path)) \/ GlobMatch(patterns[i], path)

\* Mutant: a comparison that also holds for equal instants.
BeforeOrAt(t, u) == t <= u

\* Time.Before and Time.After on clock readings.
Before(t, u) == t < u

After(t, u) == t > u

\* Mutant: criteria in which a path the regular expression matches is
\* admitted at once.
MatchRegexAdmits(o, path, info) ==
  IF o = None THEN TRUE
  ELSE IF o[1].Regex # None /\ RegexMatch(o[1].Regex[1], path) THEN TRUE
  ELSE IF o[1].SkipHidden /\ isHidden(path) THEN FALSE
  ELSE IF o[1].OlderThan # None /\ After(info.modTime, o[1].OlderThan[1]) THEN FALSE
  ELSE IF o[1].NewerThan # None /\ Before(info.modTime, o[1].NewerThan[1]) THEN FALSE
  ELSE IF /\ o[1].SizeFilter > 0
          /\ ~info.isDir
          /\ \/ o[1].SizeOp = <<"+">> /\ info.size <= o[1].SizeFilter
             \/ o[1].SizeOp = <<"-">> /\ info.size >= o[1].SizeFilter
  THEN FALSE
  ELSE IF Len(o[1].Include) > 0 /\ ~MatchesAny(o[1].Include, path) THEN FALSE
  ELSE IF Len(o[1].Exclude) > 0 /\ MatchesAny(o[1].Exclude, path) THEN FALSE
  ELSE IF o[1].Regex # None /\ ~RegexMatch(o[1].Regex[1], Base(path)) THEN FALSE
  ELSE TRUE

\* Options.Match: o is nil (None) or points to the criteria.
Match(o, path, info) ==
  IF o = None THEN TRUE
  ELSE IF o[1].SkipHidden /\ isHidden(path) THEN FALSE
  ELSE IF o[1].OlderThan # None /\ After(info.modTime, o[1].OlderThan[1]) THEN FALSE
  ELSE IF o[1].NewerThan # None /\ Before(info.modTime, o[1].NewerThan[1]) THEN FALSE
  ELSE IF /\ o[1].SizeFilter > 0
          /\ ~info.isDir
          /\ \/ o[1].SizeOp = <<"+">> /\ info.size <= o[1].SizeFilter
             \/ o[1].SizeOp = <<"-">> /\ info.size >= o[1].SizeFilter
  THEN FALSE
  ELSE IF Len(o[1].Include) > 0 /\ ~MatchesAny(o[1].Include, path) THEN FALSE
  ELSE IF Len(o[1].Exclude) > 0 /\ MatchesAny(o[1].Exclude, path) THEN FALSE
  ELSE IF /\ o[1].Regex # None
          /\ ~RegexMatch(o[1].Regex[1], path)
          /\ ~RegexMatch(o[1].Regex[1], Base(path))
  THEN FALSE
  ELSE TRUE

\* ------------------------------------------------------------------ scanner

\* scanner.FileInfo of the node at path.
FileInfo(path, info) ==
  [Path |-> path, Size |-> info.size, ModTime |-> info.modTime,
   IsDir |-> info.isDir]

countSeparators(path) == Cardinality({i \in 1..Len(path) : path[i] = Separator})

\* The paths of S in ascending string order.
RECURSIVE SortPaths(_)
SortPaths(S) ==
  IF S = {} THEN <<>>
  ELSE LET m == CHOOSE x \in S : \A y \in S \ {x} : StrLess(x, y)
       IN <<m>> \o SortPaths(S \ {m})

\* filepath.Walk: the paths the callback is given without an error, in
\* visiting order: a directory before its entries, the entries of a
\* directory in ascending name order. A directory that cannot be read is
\* given to the callback with walkErr set, and is not walked into.
RECURSIVE Walk(_, _)
Walk(fsys, todo) ==
  IF todo = <<>> THEN <<>>
  ELSE LET p == Head(todo)
           entries == SortPaths({x \in DOMAIN fsys : Dir(x) = p})
       IN IF Unreadable(fsys[p]) THEN Walk(fsys, Tail(todo))
          ELSE <<p>> \o
               Walk(fsys, (IF fsys[p].isDir THEN entries ELSE <<>>) \o Tail(todo))

\* Mutant: a walk callback that leaves out what is below a directory the
\* filter rejects.
RECURSIVE CollectPruning(_, _, _)
CollectPruning(fsys, visited, o) ==
  IF visited = <<>> THEN <<>>
  ELSE LET p == Head(visited)
       IN IF Match(o, p, fsys[p])
          THEN <<FileInfo(p, fsys[p])>> \o CollectPruning(fsys, Tail(visited), o)
          ELSE CollectPruning(
                 fsys, SelectSeq(Tail(visited), LAMBDA x : ~IsUnder(x, p)), o)

\* The walk callback: append the visited entries that the filter admits.
RECURSIVE Collect(_, _, _)
Collect(fsys, visited, o) ==
  IF visited = <<>> THEN <<>>
  ELSE (IF Match(o, Head(visited), fsys[Head(visited)])
        THEN <<FileInfo(Head(visited), fsys[Head(visited)])>>
        ELSE <<>>) \o Collect(fsys, Tail(visited), o)

\* Mutant: a comparison that puts the shallower path first.
SwapNeededShallowFirst(f1, f2) ==
  countSeparators(f1.Path) > countSeparators(f2.Path)

\* Mutant: paths of equal depth in descending order.
SwapNeededDescending(f1, f2) ==
  \/ countSeparators(f1.Path) < countSeparators(f2.Path)
  \/ /\ countSeparators(f1.Path) = countSeparators(f2.Path)
     /\ StrLess(f1.Path, f2.Path)

\* The comparison of sortByDepth's inner loop: swap files[j] and files[j+1].
SwapNeeded(f1, f2) ==
  \/ countSeparators(f1.Path) < countSeparators(f2.Path)
  \/ /\ countSeparators(f1.Path) = countSeparators(f2.Path)
     /\ StrLess(f2.Path, f1.Path)

\* One pass of the inner loop, j running from j to last.
RECURSIVE BubblePass(_, _, _)
BubblePass(files, j, last) ==
  IF j > last THEN files
  ELSE BubblePass(
         IF SwapNeeded(files[j], files[j + 1])
         THEN [files EXCEPT ![j] = files[j + 1], ![j + 1] = files[j]]
         ELSE files,
         j + 1, last)

RECURSIVE BubbleFrom(_, _)
BubbleFrom(files, i) ==
  IF i >= Len(files) - 1 THEN files
  ELSE BubbleFrom(BubblePass(files, 1, Len(files) - i - 1), i + 1)

sortByDepth(files) == BubbleFrom(files, 0)

\* Scan: the candidates, or an error when the root cannot be statted.
Scan(fsys, path, recursive, o) ==
  IF path \notin DOMAIN fsys THEN [files |-> <<>>, err |-> TRUE]
  ELSE IF ~fsys[path].isDir \/ ~recursive
  THEN [files |-> IF Match(o, path, fsys[path])
                  THEN <<FileInfo(path, fsys[path])>> ELSE <<>>,
        err |-> FALSE]
  ELSE [files |-> sortByDepth(Collect(fsys, Walk(fsys, <<path>>), o)),
        err |-> FALSE]

\* ------------------------------------------------------------------ state

VARIABLES
  fs,          \* the filesystem outside the trash: path -> node
  trashFiles,  \* the staging directory: trash name -> staged tree
  meta,        \* the metadata directory: record file name -> TrashEntry
  now,         \* the clock behind time.Now
  faults,      \* the filesystem calls that have failed so far
  cfg,         \* the Deleter (workers, shred, trashMgr), its caller and volume
  files,       \* the candidate list handed to Delete
  scanOpts,    \* Some(criteria pointer) when files came from Scan, else None
  regularFiles,\* Delete's partition: indices into files
  directories, \* Delete's partition: indices into files
  workChan,    \* the buffered work channel
  chanClosed,  \* close(workChan) has been called
  proc,        \* the frame of the caller (0) and of each worker goroutine
  disp,        \* per candidate: its disposition, "todo", "run", "ok" or "err"
  cbLog,       \* per candidate: the (path, err) pairs passed to onProgress
  stageCalls,  \* the number of MoveToTrash calls made
  ops,         \* the number of trash operations the client has started
  hist,        \* the client's last two calls, the latest first
  trashDirs,   \* which of the directories files and meta of the trash exist
  listed,      \* what the client's last call of List returned
  ac,          \* AutoCleanup's locals and what it returned
  flags,       \* the command line of the run: its flags and targets
  errors,      \* performDeletion's list of the errors reported to onProgress
  errMu,       \* the mutex of that list: None, or Some(its holder)
  shr,         \* shredFile's frame: position, pass, remaining, offset, result
  sysLog,      \* the calls shredFile has made on its file, in order
  input,       \* the string handed to ParseSize or ParseDuration
  parsed,      \* None, or Some(what the parser returned)
  sigChan,     \* countdownWithAbort's signal channel (capacity 1)
  done,        \* countdownWithAbort's result channel (capacity 1)
  cd           \* countdownWithAbort's caller and goroutine, and Execute after it

managerVars == <<trashDirs, listed, ac>>

cliVars == <<flags, errors, errMu>>

unitVars == <<shr, sysLog, input, parsed, sigChan, done, cd>>

clientVars == <<ops, hist, managerVars, cliVars, unitVars>>

vars ==
  <<fs, trashFiles, meta, now, faults, cfg, files, scanOpts, regularFiles,
    directories, workChan, chanClosed, proc, disp, cbLog, stageCalls, clientVars>>

deleterVars ==
  <<cfg, files, scanOpts, regularFiles, directories, workChan, chanClosed>>

Caller == 0

\* shredFile not called.
IdleShred ==
  [pc |-> "none", path |-> <<>>, size |-> 0, pass |-> 0, remaining |-> 0,
   off |-> 0, err |-> "nil"]

\* countdownWithAbort not called.
IdleCountdown ==
  [caller |-> "none", timer |-> "none", i |-> 0, result |-> <<>>,
   notify |-> FALSE, delivered |-> 0, received |-> 0, count |-> 0,
   noCountdown |-> FALSE]

\* The runs that call neither shredFile on its own, nor the parsers of
\* utils, nor countdownWithAbort.
UnitsIdle ==
  /\ shr = IdleShred
  /\ sysLog = <<>>
  /\ input = <<>>
  /\ parsed = <<>>
  /\ sigChan = <<>>
  /\ done = <<>>
  /\ cd = IdleCountdown

Workers == 1..8

Procs == {Caller} \cup Workers

\* The command line without flags and targets.
NoFlags ==
  [recursive |-> FALSE, dryRun |-> FALSE, emptyTrash |-> FALSE,
   cleanupTrash |-> FALSE, showTrash |-> FALSE, restoreFile |-> <<>>,
   targets |-> <<>>]

\* NewManager: the directories files and meta are made.
AllDirs == {"files", "meta"}

\* No call of List has returned yet.
NoListing == [entries |-> <<>>, totalSize |-> 0, err |-> Nil]

\* AutoCleanup's arguments and locals before any call; `removed` is the
\* history of the removals it has attempted.
NoCleanup ==
  [retentionDays |-> 0, maxSizeMB |-> 0, entries |-> <<>>, totalSize |-> 0,
   maxSizeBytes |-> 0, cutoffTime |-> 0, itemsRemoved |-> 0, bytesFreed |-> 0,
   newTotalSize |-> 0, remaining |-> <<>>, removed |-> <<>>]

\* The staging directory, ~/.nuke-trash/files.
TrashDir == <<"/", "t">>

JsonSuffix == <<".", "j", "s", "o", "n">>

\* A frame at rest.
IdleFrame(pc) ==
  [pc |-> pc, idx |-> 0, path |-> <<>>, err |-> Nil, ts |-> 0,
   name |-> <<>>, info |-> DirNode(0), pass |-> 0, i |-> 0, ret |-> pc,
   seen |-> <<>>]

\* A filesystem call may fail while fewer than MaxFaults calls have failed.
MayFail == faults < MaxFaults

\* time.Now: the clock does not go back and may not have advanced since the
\* last reading.
ClockReadings == now..Min(now + 1, MaxClock)

\* A frame returns err to the point it was called from.
Return(q, err) ==
  [proc EXCEPT ![q].pc = proc[q].ret, ![q].err = err]

\* The ghost record of a finished disposition.
Disposed(q, err) ==
  IF proc[q].idx = 0 THEN disp
  ELSE [disp EXCEPT ![proc[q].idx] = IF err # Nil THEN "err" ELSE "ok"]

\* ------------------------------------------------------------------ trash: MoveToTrash

\* trashName := fmt.Sprintf("%d_%s", timestamp, baseName)
TrashName(timestamp, absPath) ==
  FormatInt(timestamp) \o <<"_">> \o Base(absPath)

\* Mutant: the record is named as the staged data.
MetaNameBare(trashName) == trashName

MetaName(trashName) == trashName \o JsonSuffix

\* os.Rename(absPath, trashPath) succeeds: one volume, the source exists, and
\* the target is free, a file replaced by a file, or an empty directory
\* replaced by a directory.
RenameIntoTrashOK(p, n) ==
  /\ ~cfg.xdev
  /\ p \in DOMAIN fs
  /\ n \in DOMAIN trashFiles =>
       \/ ~fs[p].isDir /\ ~trashFiles[n][<<>>].isDir
       \/ fs[p].isDir /\ trashFiles[n][<<>>].isDir /\ DOMAIN trashFiles[n] = {<<>>}

\* copyPath(absPath, trashPath) can succeed: the source exists and the target
\* is free or of the same kind (WriteFile replaces a file, MkdirAll accepts a
\* directory).
CopyIntoTrashOK(p, n) ==
  /\ p \in DOMAIN fs
  /\ n \in DOMAIN trashFiles => trashFiles[n][<<>>].isDir = fs[p].isDir

\* The staging directory after `body` has been copied to name n.
CopiedTo(n, body) ==
  IF n \in DOMAIN trashFiles /\ body[<<>>].isDir
  THEN (n :> (body @@ trashFiles[n])) @@ trashFiles
  ELSE (n :> body) @@ trashFiles

\* What a copy that failed part-way leaves at the target: a truncated file,
\* or the directory without its entries.
PartialBody(node) ==
  <<>> :> (IF node.isDir THEN node ELSE [node EXCEPT !.size = 0, !.data = "part"])

\* Mutant: the record keeps the base name instead of the absolute path.
TrashEntryOfBaseName(absPath, trashName, deletedAt, info) ==
  [OriginalPath |-> Base(absPath), TrashPath |-> Join(TrashDir, trashName),
   DeletedAt |-> deletedAt, Size |-> info.size, IsDir |-> info.isDir]

\* The metadata record MoveToTrash builds.
TrashEntry(absPath, trashName, deletedAt, info) ==
  [OriginalPath |-> absPath, TrashPath |-> Join(TrashDir, trashName),
   DeletedAt |-> deletedAt, Size |-> info.size, IsDir |-> info.isDir]

\* MoveToTrash, lines 55-70: Lstat, then the trash name from the clock.
MtStat(q) ==
  /\ proc[q].pc = "mt_stat"
  /\ \/ /\ proc[q].path \in DOMAIN fs
        /\ \E t \in ClockReadings :
             /\ now' = t
             /\ proc' = [proc EXCEPT ![q].pc = "mt_move",
                                     ![q].info = fs[proc[q].path],
                                     ![q].ts = t,
                                     ![q].name = TrashName(t, proc[q].path)]
        /\ UNCHANGED <<faults, disp>>
     \/ /\ proc[q].path \notin DOMAIN fs \/ MayFail
        /\ faults' = IF proc[q].path \in DOMAIN fs THEN faults + 1 ELSE faults
        /\ proc' = Return(q, ErrLstat)
        /\ disp' = Disposed(q, ErrLstat)
        /\ UNCHANGED now
  /\ UNCHANGED <<fs, trashFiles, meta, deleterVars, cbLog, stageCalls, clientVars>>

\* Mutant: a failed copy is not reported.
MoveFailedSilently(q) == Return(q, Nil)

\* MoveToTrash, lines 75-77: copyPath failed, the error is returned.
MoveFailed(q) == Return(q, ErrMove)

\* MoveToTrash, lines 73-77: the rename, or the copy when the rename fails.
MtMove(q) ==
  /\ proc[q].pc = "mt_move"
  /\ LET p == proc[q].path
         n == proc[q].name
     IN \/ /\ RenameIntoTrashOK(p, n)
           /\ fs' = Prune(fs, p)
           /\ trashFiles' = (n :> Subtree(fs, p)) @@ trashFiles
           /\ proc' = [proc EXCEPT ![q].pc = "mt_meta"]
           /\ UNCHANGED <<faults, disp>>
        \/ /\ ~RenameIntoTrashOK(p, n)
           /\ CopyIntoTrashOK(p, n)
           /\ trashFiles' = CopiedTo(n, Subtree(fs, p))
           /\ proc' = [proc EXCEPT ![q].pc = "mt_unlink"]
           /\ UNCHANGED <<fs, faults, disp>>
        \/ /\ ~RenameIntoTrashOK(p, n)
           /\ ~CopyIntoTrashOK(p, n)
           /\ proc' = MoveFailed(q)
           /\ disp' = Disposed(q, ErrMove)
           /\ UNCHANGED <<fs, trashFiles, faults>>
        \/ /\ ~RenameIntoTrashOK(p, n)
           /\ CopyIntoTrashOK(p, n)
           /\ MayFail
           /\ faults' = faults + 1
           /\ \/ UNCHANGED trashFiles
              \/ trashFiles' = CopiedTo(n, PartialBody(fs[p]))
           /\ proc' = MoveFailed(q)
           /\ disp' = Disposed(q, ErrMove)
           /\ UNCHANGED fs
  /\ UNCHANGED <<meta, now, deleterVars, cbLog, stageCalls, clientVars>>

\* MoveToTrash, lines 78-82: RemoveAll of the original after the copy, and
\* the removal of the copy when that fails.
MtUnlink(q) ==
  /\ proc[q].pc = "mt_unlink"
  /\ LET p == proc[q].path
         n == proc[q].name
     IN \/ /\ fs' = Prune(fs, p)
           /\ proc' = [proc EXCEPT ![q].pc = "mt_meta"]
           /\ UNCHANGED <<trashFiles, faults, disp>>
        \/ /\ MayFail
           /\ p \in DOMAIN fs
           /\ \/ UNCHANGED fs
              \/ /\ Children(fs, p) # {}
                 /\ fs' = Without(fs, Children(fs, p))
           /\ \/ /\ trashFiles' = Without(trashFiles, {n})
                 /\ faults' = faults + 1
              \/ /\ faults + 1 < MaxFaults
                 /\ faults' = faults + 2
                 /\ UNCHANGED trashFiles
           /\ proc' = Return(q, ErrRemoveOriginal)
           /\ disp' = Disposed(q, ErrRemoveOriginal)
  /\ UNCHANGED <<meta, now, deleterVars, cbLog, stageCalls, clientVars>>

\* MoveToTrash, lines 85-104: the metadata record, written after the move.
MtMeta(q) ==
  /\ proc[q].pc = "mt_meta"
  /\ \E t \in ClockReadings :
       /\ now' = t
       /\ \/ /\ meta' = (MetaName(proc[q].name) :>
                          TrashEntry(proc[q].path, proc[q].name, t, proc[q].info))
                        @@ meta
             /\ proc' = Return(q, Nil)
             /\ disp' = Disposed(q, Nil)
             /\ UNCHANGED faults
          \/ /\ MayFail
             /\ faults' = faults + 1
             /\ proc' = Return(q, ErrSaveMetadata)
             /\ disp' = Disposed(q, ErrSaveMetadata)
             /\ UNCHANGED meta
  /\ UNCHANGED <<fs, trashFiles, deleterVars, cbLog, stageCalls, clientVars>>

\* ------------------------------------------------------------------ deleter

DefaultWorkers == 8

\* Mutant: a pool with one goroutine more than asked for.
NewOneMore(workers) == IF workers <= 0 THEN DefaultWorkers ELSE workers + 1

\* New: a worker count that is not positive becomes the default.
New(workers) == IF workers <= 0 THEN DefaultWorkers ELSE workers

\* passes := 3
Passes == 3

\* Mutant: softDelete stages also when there is no trash manager.
FileDispositionStaging ==
  IF cfg.shred THEN "shred_open" ELSE "mt_stat"

\* The first step of a regular file's disposition (the worker's branch on
\* d.shred, then softDelete's branch on d.trashMgr).
FileDisposition ==
  IF cfg.shred THEN "shred_open"
  ELSE IF ~cfg.trash THEN "remove"
  ELSE "mt_stat"

\* Mutant: deleteDirectory without its test of d.shred.
DirDispositionIgnoringShred == IF ~cfg.trash THEN "remove" ELSE "mt_stat"

\* The first step of deleteDirectory.
DirDisposition ==
  IF ~cfg.trash \/ cfg.shred THEN "remove" ELSE "mt_stat"

\* The frame of q starting the disposition of candidate idx.
Begin(q, idx, first, ret) ==
  [proc EXCEPT ![q] = [IdleFrame(first) EXCEPT !.idx = idx,
                                               !.path = files[idx].Path,
                                               !.i = proc[q].i,
                                               !.ret = ret]]

\* os.Remove(path), in softDelete without a trash manager, in deleteDirectory
\* and at the end of shredFile.
RemovePath(q) ==
  /\ proc[q].pc = "remove"
  /\ \/ /\ CanRemove(fs, proc[q].path)
        /\ fs' = Without(fs, {proc[q].path})
        /\ proc' = Return(q, Nil)
        /\ disp' = Disposed(q, Nil)
        /\ UNCHANGED faults
     \/ /\ ~CanRemove(fs, proc[q].path) \/ MayFail
        /\ faults' = IF CanRemove(fs, proc[q].path) THEN faults + 1 ELSE faults
        /\ proc' = Return(q, ErrRemove)
        /\ disp' = Disposed(q, ErrRemove)
        /\ UNCHANGED fs
  /\ UNCHANGED <<trashFiles, meta, now, deleterVars, cbLog, stageCalls, clientVars>>

\* shredFile, lines 120-123: os.OpenFile(path, O_WRONLY, 0).
ShredOpen(q) ==
  /\ proc[q].pc = "shred_open"
  /\ LET p == proc[q].path
         openable == p \in DOMAIN fs /\ ~fs[p].isDir
     IN \/ /\ openable
           /\ proc' = [proc EXCEPT ![q].pc = "shred_pass", ![q].pass = 0]
           /\ UNCHANGED <<faults, disp>>
        \/ /\ ~openable \/ MayFail
           /\ faults' = IF openable THEN faults + 1 ELSE faults
           /\ proc' = Return(q, ErrOpen)
           /\ disp' = Disposed(q, ErrOpen)
  /\ UNCHANGED <<fs, trashFiles, meta, now, deleterVars, cbLog, stageCalls, clientVars>>

\* The file after one pass over its first `size` bytes: random bytes on the
\* even passes, zero bytes on the odd one.
Overwritten(node, size, pass) ==
  IF size = 0 THEN node
  ELSE [node EXCEPT
          !.data = IF size < node.size THEN "mixed"
                   ELSE IF pass % 2 = 0 THEN "random" ELSE "zero",
          !.size = IF size < node.size THEN node.size ELSE size]

\* shredFile, lines 132-168: one pass (seek, the writes, sync).
ShredPass(q) ==
  /\ proc[q].pc = "shred_pass"
  /\ LET p == proc[q].path
         size == files[proc[q].idx].Size
         written == IF p \in DOMAIN fs /\ ~fs[p].isDir
                    THEN [fs EXCEPT ![p] = Overwritten(fs[p], size, proc[q].pass)]
                    ELSE fs
     IN \/ /\ fs' = written
           /\ proc' = [proc EXCEPT
                         ![q].pass = proc[q].pass + 1,
                         ![q].pc = IF proc[q].pass + 1 < Passes
                                   THEN "shred_pass" ELSE "remove"]
           /\ UNCHANGED <<faults, disp>>
        \/ /\ MayFail
           /\ faults' = faults + 1
           /\ fs' \in {fs, written}
           /\ proc' = Return(q, ErrWrite)
           /\ disp' = Disposed(q, ErrWrite)
  /\ UNCHANGED <<trashFiles, meta, now, deleterVars, cbLog, stageCalls, clientVars>>

\* The worker goroutine: `for file := range workChan`, a file received.
WorkerRecv(w) ==
  /\ proc[w].pc = "recv"
  /\ workChan # <<>>
  /\ workChan' = Tail(workChan)
  /\ proc' = Begin(w, Head(workChan), FileDisposition, "callback")
  /\ disp' = [disp EXCEPT ![Head(workChan)] = "run"]
  /\ stageCalls' = IF FileDisposition = "mt_stat" THEN stageCalls + 1 ELSE stageCalls
  /\ UNCHANGED <<fs, trashFiles, meta, now, faults, cfg, files, scanOpts,
                 regularFiles, directories, chanClosed, cbLog, clientVars>>

\* The worker goroutine: the channel is closed and drained, wg.Done().
WorkerExit(w) ==
  /\ proc[w].pc = "recv"
  /\ workChan = <<>>
  /\ chanClosed
  /\ proc' = [proc EXCEPT ![w].pc = "exit"]
  /\ UNCHANGED <<fs, trashFiles, meta, now, faults, deleterVars, disp, cbLog,
                 stageCalls, clientVars>>

\* Mutant: the callback invoked for failures only.
ReportedOnError(q) ==
  IF cfg.callback /\ proc[q].err # Nil
  THEN [cbLog EXCEPT ![proc[q].idx] =
          Append(@, [path |-> proc[q].path, err |-> proc[q].err])]
  ELSE cbLog

\* onProgress(path, err), when a callback was given.
Reported(q) ==
  IF cfg.callback
  THEN [cbLog EXCEPT ![proc[q].idx] =
          Append(@, [path |-> proc[q].path, err |-> proc[q].err])]
  ELSE cbLog

\* Mutant: a worker that returns when a disposition fails.
WorkerCallbackStopOnError(w) ==
  /\ w \in Workers
  /\ proc[w].pc = "callback"
  /\ cbLog' = Reported(w)
  /\ proc' = [proc EXCEPT ![w].pc = IF proc[w].err # Nil THEN "exit" ELSE "recv"]
  /\ UNCHANGED <<fs, trashFiles, meta, now, faults, deleterVars, disp,
                 stageCalls, clientVars>>

\* The frame of q after bar.Add(1) in onProgress: on to errMu.Lock() when
\* the callback was given an error, back to the caller at pc `after` when
\* not.
Progressed(q, after) ==
  IF cfg.callback /\ proc[q].err # Nil
  THEN [proc[q] EXCEPT !.pc = "err_lock", !.ret = after]
  ELSE [proc[q] EXCEPT !.pc = after]

\* The worker goroutine: the progress callback after a disposition.
WorkerCallback(w) ==
  /\ w \in Workers
  /\ proc[w].pc = "callback"
  /\ cbLog' = Reported(w)
  /\ proc' = [proc EXCEPT ![w] = Progressed(w, "recv")]
  /\ UNCHANGED <<fs, trashFiles, meta, now, faults, deleterVars, disp,
                 stageCalls, clientVars>>

\* Mutant: a mutex that never makes a goroutine wait.
MutexIgnored == TRUE

\* errMu is unlocked.
MutexFree == errMu = None

\* onProgress with an error: errMu.Lock(), and the slice that append reads.
ErrLock(q) ==
  /\ proc[q].pc = "err_lock"
  /\ MutexFree
  /\ errMu' = Some(q)
  /\ proc' = [proc EXCEPT ![q].pc = "err_append", ![q].seen = errors]
  /\ UNCHANGED <<fs, trashFiles, meta, now, faults, deleterVars, disp, cbLog,
                 stageCalls, ops, hist, managerVars, flags, errors,
                 unitVars>>

\* onProgress with an error: the assignment of the appended slice to
\* errors, and errMu.Unlock().
ErrAppend(q) ==
  /\ proc[q].pc = "err_append"
  /\ errors' = Append(proc[q].seen, [path |-> proc[q].path, err |-> proc[q].err])
  /\ errMu' = None
  /\ proc' = [proc EXCEPT ![q].pc = proc[q].ret, ![q].seen = <<>>]
  /\ UNCHANGED <<fs, trashFiles, meta, now, faults, deleterVars, disp, cbLog,
                 stageCalls, ops, hist, managerVars, flags, unitVars>>

\* The indices i of files, in order, with files[i].IsDir = isDir.
RECURSIVE Partition(_, _)
Partition(i, isDir) ==
  IF i > Len(files) THEN <<>>
  ELSE (IF files[i].IsDir = isDir THEN <<i>> ELSE <<>>) \o Partition(i + 1, isDir)

\* Delete, lines 39-51, and deleteFilesConcurrently, lines 69-96: the
\* partition, then the channel and the workers unless there is no file.
DeleteStart ==
  /\ proc[Caller].pc = "start"
  /\ cfg.entry = "Delete"
  /\ regularFiles' = Partition(1, FALSE)
  /\ directories' = Partition(1, TRUE)
  /\ proc' = IF Partition(1, FALSE) = <<>>
             THEN [proc EXCEPT ![Caller].pc = "sort"]
             ELSE [q \in Procs |->
                     IF q = Caller THEN [proc[q] EXCEPT !.pc = "send", !.i = 1]
                     ELSE IF q <= New(cfg.workers) THEN IdleFrame("recv")
                     ELSE proc[q]]
  /\ UNCHANGED <<fs, trashFiles, meta, now, faults, cfg, files, scanOpts,
                 workChan, chanClosed, disp, cbLog, stageCalls, clientVars>>

\* Mutant: a channel that takes no element.
NoBuffer == Len(<<>>)

\* make(chan scanner.FileInfo, len(files)): the capacity of the channel.
ChanCap == Len(regularFiles)

\* deleteFilesConcurrently, lines 99-101: workChan <- file.
DeleteSend ==
  /\ proc[Caller].pc = "send"
  /\ proc[Caller].i <= Len(regularFiles)
  /\ Len(workChan) < ChanCap
  /\ workChan' = Append(workChan, regularFiles[proc[Caller].i])
  /\ proc' = [proc EXCEPT ![Caller].i = @ + 1]
  /\ UNCHANGED <<fs, trashFiles, meta, now, faults, cfg, files, scanOpts,
                 regularFiles, directories, chanClosed, disp, cbLog,
                 stageCalls, clientVars>>

\* deleteFilesConcurrently, line 102: close(workChan).
DeleteClose ==
  /\ proc[Caller].pc = "send"
  /\ proc[Caller].i > Len(regularFiles)
  /\ chanClosed' = TRUE
  /\ proc' = [proc EXCEPT ![Caller].pc = "wait"]
  /\ UNCHANGED <<fs, trashFiles, meta, now, faults, cfg, files, scanOpts,
                 regularFiles, directories, workChan, disp, cbLog,
                 stageCalls, clientVars>>

\* Mutant: Delete goes on to the directories without wg.Wait().
NoWait == TRUE

\* wg.Wait() returns: every worker has called wg.Done().
AllWorkersDone == \A w \in 1..New(cfg.workers) : proc[w].pc = "exit"

\* deleteFilesConcurrently, line 105: wg.Wait().
DeleteWait ==
  /\ proc[Caller].pc = "wait"
  /\ AllWorkersDone
  /\ proc' = [proc EXCEPT ![Caller].pc = "sort"]
  /\ UNCHANGED <<fs, trashFiles, meta, now, faults, deleterVars, disp, cbLog,
                 stageCalls, clientVars>>

\* performDeletion's report: the successes it prints.
successCount == Len(files) - Len(errors)

\* Mutant: the comparison of the sort turned round.
ShorterFirst(i, j) == Len(files[i].Path) < Len(files[j].Path)

\* The less function of Delete's sort.Slice: the longer path first.
LongerFirst(i, j) == Len(files[i].Path) > Len(files[j].Path)

\* The orders sort.Slice may leave: every arrangement of the directories in
\* which no element is `less` than one before it (the sort is not stable).
SortSlice(s) ==
  {t \in [1..Len(s) -> {s[k] : k \in 1..Len(s)}] :
     /\ \A x \in {s[k] : k \in 1..Len(s)} :
          Cardinality({k \in 1..Len(s) : t[k] = x})
            = Cardinality({k \in 1..Len(s) : s[k] = x})
     /\ \A a, b \in 1..Len(s) : a < b => ~LongerFirst(t[b], t[a])}

\* Delete, lines 55-57: the directories sorted by path length.
DeleteSort ==
  /\ proc[Caller].pc = "sort"
  /\ directories' \in SortSlice(directories)
  /\ proc' = [proc EXCEPT ![Caller].pc = "dirs", ![Caller].i = 1]
  /\ UNCHANGED <<fs, trashFiles, meta, now, faults, cfg, files, scanOpts,
                 regularFiles, workChan, chanClosed, disp, cbLog, stageCalls,
                 clientVars>>

\* Delete, lines 59-60: deleteDirectory(dir) for the next directory.
DeleteDir ==
  /\ proc[Caller].pc = "dirs"
  /\ proc[Caller].i <= Len(directories)
  /\ proc' = Begin(Caller, directories[proc[Caller].i], DirDisposition, "dir_cb")
  /\ disp' = [disp EXCEPT ![directories[proc[Caller].i]] = "run"]
  /\ stageCalls' = IF DirDisposition = "mt_stat" THEN stageCalls + 1 ELSE stageCalls
  /\ UNCHANGED <<fs, trashFiles, meta, now, faults, deleterVars, cbLog, clientVars>>

\* Delete, lines 61-63: the progress callback for the directory.
DeleteDirCallback ==
  /\ proc[Caller].pc = "dir_cb"
  /\ cbLog' = Reported(Caller)
  /\ proc' = [proc EXCEPT ![Caller] = [Progressed(Caller, "dirs") EXCEPT !.i = @ + 1]]
  /\ UNCHANGED <<fs, trashFiles, meta, now, faults, deleterVars, disp,
                 stageCalls, clientVars>>

\* Delete returns after the last directory.
DeleteReturn ==
  /\ proc[Caller].pc = "dirs"
  /\ proc[Caller].i > Len(directories)
  /\ proc' = [proc EXCEPT ![Caller].pc = "done"]
  /\ UNCHANGED <<fs, trashFiles, meta, now, faults, deleterVars, disp, cbLog,
                 stageCalls, clientVars>>

\* DeleteSingle(file): deleteDirectory, shredFile or softDelete.
DeleteSingle ==
  /\ proc[Caller].pc = "start"
  /\ cfg.entry = "DeleteSingle"
  /\ files # <<>>
  /\ LET first == IF files[1].IsDir THEN DirDisposition ELSE FileDisposition
     IN /\ proc' = Begin(Caller, 1, first, "done")
        /\ stageCalls' = IF first = "mt_stat" THEN stageCalls + 1 ELSE stageCalls
  /\ disp' = [disp EXCEPT ![1] = "run"]
  /\ UNCHANGED <<fs, trashFiles, meta, now, faults, deleterVars, cbLog, clientVars>>

\* ------------------------------------------------------------------ runs of Delete

\* The criteria of the scans: none, --size=+2M, --exclude=b.
FilterChoices ==
  {None,
   Some([NoOptions EXCEPT !.SizeFilter = 2 * MB, !.SizeOp = <<"+">>]),
   Some([NoOptions EXCEPT !.Exclude = <<<<"b">>>>])}

\* The candidates of the initial tree.
Nodes == {FileInfo(p, InitialFS[p]) : p \in DOMAIN InitialFS}

\* The candidate lists a caller builds without the scanner, in any order and
\* with repetitions.
HandLists == UNION {[1..n -> Nodes] : n \in 0..MaxCands}

\* The Deleter and its caller: the worker count given to New, --shred, whether
\* a trash manager is present, whether a callback is given, which entry point
\* is called, and whether the trash is on another volume than the files.
Configs ==
  {c \in [workers : 1..MaxWorkers, shred : BOOLEAN, trash : BOOLEAN,
          callback : BOOLEAN, entry : {"Delete", "DeleteSingle"},
          xdev : BOOLEAN] :
     /\ c.xdev => c.trash /\ ~c.shred
     /\ c.entry = "DeleteSingle" => c.workers = 1 /\ c.callback}

\* performDeletion always makes a trash manager and gives a callback.
FromCLI(c) == c.entry = "Delete" /\ c.trash /\ c.callback

InitCommon ==
  /\ fs = InitialFS
  /\ trashFiles = <<>>
  /\ meta = <<>>
  /\ now = 1
  /\ UnitsIdle
  /\ faults = 0
  /\ regularFiles = <<>>
  /\ directories = <<>>
  /\ workChan = <<>>
  /\ chanClosed = FALSE
  /\ stageCalls = 0
  /\ ops = 0
  /\ hist = <<>>
  /\ trashDirs = AllDirs
  /\ listed = NoListing
  /\ ac = NoCleanup
  /\ errors = <<>>
  /\ errMu = None

Init ==
  /\ InitCommon
  /\ cfg \in Configs
  /\ \/ /\ scanOpts = None
        /\ flags = NoFlags
        /\ files \in HandLists
     \/ /\ FromCLI(cfg)
        /\ flags = [NoFlags EXCEPT !.recursive = TRUE, !.targets = <<Root>>]
        /\ \E o \in FilterChoices :
             /\ scanOpts = Some(o)
             /\ files = Scan(InitialFS, Root, TRUE, o).files
  /\ cfg.entry = "DeleteSingle" => Len(files) = 1
  /\ proc = [q \in Procs |-> IdleFrame(IF q = Caller THEN "start" ELSE "none")]
  /\ disp = [i \in 1..Len(files) |-> "todo"]
  /\ cbLog = [i \in 1..Len(files) |-> <<>>]

Next ==
  \/ DeleteStart
  \/ DeleteSend
  \/ DeleteClose
  \/ DeleteWait
  \/ DeleteSort
  \/ DeleteDir
  \/ DeleteDirCallback
  \/ DeleteReturn
  \/ DeleteSingle
  \/ \E w \in Workers : WorkerRecv(w) \/ WorkerExit(w) \/ WorkerCallback(w)
  \/ \E q \in Procs :
       \/ MtStat(q)
       \/ MtMove(q)
       \/ MtUnlink(q)
       \/ MtMeta(q)
       \/ RemovePath(q)
       \/ ShredOpen(q)
       \/ ShredPass(q)
       \/ ErrLock(q)
       \/ ErrAppend(q)

Spec == Init /\ [][Next]_vars

\* ------------------------------------------------------------------ runs of the worker pool

\* The worker counts given to New: negative, zero, and from one up to more
\* than the candidates.
PoolWorkers == (-1)..(MaxCands + 1)

\* The candidates of the pool runs: two files and a directory.
PoolNodes == {FileInfo(p, InitialFS[p]) : p \in {PathA, PathB, PathD}}

PoolLists == UNION {[1..n -> PoolNodes] : n \in 0..MaxCands}

\* Delete without a trash manager (softDelete removes the file directly),
\* on every list of these candidates, with each worker count (the default
\* pool of eight on the lists of one candidate at most); no filesystem call
\* fails but those that must (a file removed twice, a directory that is
\* not empty).
InitPool ==
  /\ fs = InitialFS
  /\ trashFiles = <<>>
  /\ meta = <<>>
  /\ now = 1
  /\ UnitsIdle
  /\ faults = MaxFaults
  /\ regularFiles = <<>>
  /\ directories = <<>>
  /\ workChan = <<>>
  /\ chanClosed = FALSE
  /\ stageCalls = 0
  /\ ops = 0
  /\ hist = <<>>
  /\ trashDirs = AllDirs
  /\ listed = NoListing
  /\ ac = NoCleanup
  /\ errors = <<>>
  /\ errMu = None
  /\ cfg \in [workers : PoolWorkers, shred : {FALSE}, trash : {FALSE},
              callback : {TRUE}, entry : {"Delete"}, xdev : {FALSE}]
  /\ scanOpts = None
  /\ flags = NoFlags
  /\ files \in PoolLists
  /\ cfg.workers <= 0 => Len(files) <= 1
  /\ proc = [q \in Procs |-> IdleFrame(IF q = Caller THEN "start" ELSE "none")]
  /\ disp = [i \in 1..Len(files) |-> "todo"]
  /\ cbLog = [i \in 1..Len(files) |-> <<>>]

\* The steps of the goroutine q.
StepOf(q) ==
  \/ q \in Workers /\ (WorkerRecv(q) \/ WorkerExit(q) \/ WorkerCallback(q))
  \/ RemovePath(q)
  \/ ErrLock(q)
  \/ ErrAppend(q)

\* The steps of Delete in the calling goroutine.
DeleteStep ==
  \/ DeleteStart
  \/ DeleteSend
  \/ DeleteClose
  \/ DeleteWait
  \/ DeleteSort
  \/ DeleteDir
  \/ DeleteDirCallback
  \/ DeleteReturn

NextPool ==
  \/ DeleteStep
  \/ \E q \in Procs : StepOf(q)

SpecPool == InitPool /\ [][NextPool]_vars

\* The scheduler runs every goroutine that can take a step, and every
\* filesystem call returns.
FairPool ==
  /\ WF_vars(DeleteStep)
  /\ \A q \in Procs : WF_vars(StepOf(q))

SpecPoolLive == SpecPool /\ FairPool

\* ------------------------------------------------------------------ runs of Scan

\* The paths the configuration protects: the root directory, /etc, and
\* the relative name .git.
ProtectedPaths == << <<"/">>, <<"/", "e", "t", "c">>, <<".", "g", "i", "t">> >>

\* The subdirectories of a protected directory that are protected with it.
CriticalSubdirs ==
  << <<"/", "b", "i", "n">>, <<"/", "s", "b", "i", "n">>,
     <<"/", "l", "i", "b">>, <<"/", "e", "t", "c">> >>

\* Config.IsProtected for one protected path.
ProtectedBy(absPath, protected) ==
  \/ absPath = protected
  \/ /\ ~HasPrefix(protected, <<Separator>>)
     /\ \/ Contains(absPath, <<Separator>> \o protected \o <<Separator>>)
        \/ HasSuffix(absPath, <<Separator>> \o protected)
        \/ Base(absPath) = protected
  \/ /\ HasPrefix(absPath, protected \o <<Separator>>)
     /\ \E k \in 1..Len(CriticalSubdirs) :
          HasPrefix(absPath, protected \o CriticalSubdirs[k])

\* Config.IsProtected.
IsProtected(absPath) ==
  \E k \in 1..Len(ProtectedPaths) : ProtectedBy(absPath, ProtectedPaths[k])

\* scanTargets: the loop over the targets from the k-th on. A protected
\* target is skipped, and so is a target whose Scan fails.
RECURSIVE ScanFrom(_, _)
ScanFrom(fsys, k) ==
  IF k > Len(flags.targets) THEN [files |-> <<>>, err |-> Nil]
  ELSE LET rest == ScanFrom(fsys, k + 1)
       IN IF IsProtected(flags.targets[k]) THEN rest
          ELSE LET r == Scan(fsys, flags.targets[k], flags.recursive, scanOpts[1])
               IN [files |-> r.files \o rest.files,
                   err |-> IF r.err THEN ErrLstat ELSE rest.err]

\* The trees that are scanned: the parts of the tree that hold, with a
\* path, the directory it is in; at most one of the directories cannot be
\* read.
Trees ==
  {[p \in S |-> IF p = u THEN [ScanFS[p] EXCEPT !.mode = "---"] ELSE ScanFS[p]] :
     S \in {T \in SUBSET DOMAIN ScanFS :
              /\ Root \in T
              /\ \A p \in T \ {Root} : Dir(p) \in T},
     u \in {<<>>} \cup {p \in DOMAIN ScanFS : ScanFS[p].isDir}}

\* The criteria of the scans of the trees.
ScanFilterChoices ==
  FilterChoices \cup
  {Some([NoOptions EXCEPT !.Exclude = <<<<"d">>>>]),
   Some([NoOptions EXCEPT !.SkipHidden = TRUE]),
   Some([NoOptions EXCEPT !.Include = <<<<"a">>, <<"c">>>>])}

\* scanTargets: every target scanned, the results in the order of the
\* targets; the frame keeps the error of a Scan that failed.
ScanTargets ==
  /\ proc[Caller].pc = "scan"
  /\ files' = ScanFrom(fs, 1).files
  /\ proc' = [proc EXCEPT ![Caller].pc = "scanned",
                          ![Caller].err = ScanFrom(fs, 1).err]
  /\ UNCHANGED <<fs, trashFiles, meta, now, faults, cfg, scanOpts, regularFiles,
                 directories, workChan, chanClosed, disp, cbLog, stageCalls,
                 clientVars>>

InitScan ==
  /\ fs \in Trees
  /\ trashFiles = <<>>
  /\ meta = <<>>
  /\ now = 1
  /\ UnitsIdle
  /\ faults = 0
  /\ regularFiles = <<>>
  /\ directories = <<>>
  /\ workChan = <<>>
  /\ chanClosed = FALSE
  /\ stageCalls = 0
  /\ ops = 0
  /\ hist = <<>>
  /\ trashDirs = AllDirs
  /\ listed = NoListing
  /\ ac = NoCleanup
  /\ errors = <<>>
  /\ errMu = None
  /\ cfg \in {c \in Configs : FromCLI(c) /\ ~c.shred /\ ~c.xdev /\ c.workers = 1}
  /\ files = <<>>
  /\ scanOpts \in {Some(o) : o \in ScanFilterChoices}
  /\ \E target \in DOMAIN ScanFS, recursive \in BOOLEAN :
       flags = [NoFlags EXCEPT !.recursive = recursive, !.targets = <<target>>]
  /\ proc = [q \in Procs |-> IdleFrame(IF q = Caller THEN "scan" ELSE "none")]
  /\ disp = <<>>
  /\ cbLog = <<>>

NextScan == ScanTargets

SpecScan == InitScan /\ [][NextScan]_vars

\* ------------------------------------------------------------------ runs of Match

\* The criteria createFilterOptions can build from the flags, and nil: each
\* cutoff unset, at the first or at the second clock reading; --size unset,
\* +0, -0, one byte under the size of a file, +1M and -1M; include and
\* exclude patterns for base names and for full paths; a regular expression.
MatchChoices ==
  {None} \cup
  {Some([SkipHidden |-> h, OlderThan |-> ot, NewerThan |-> nt,
         SizeFilter |-> sz[1], SizeOp |-> sz[2], Include |-> inc,
         Exclude |-> exc, Regex |-> re]) :
     h \in BOOLEAN,
     ot \in {None, Some(1), Some(2)},
     nt \in {None, Some(1), Some(2)},
     sz \in {<<0, <<>>>>, <<0, <<"+">>>>, <<0, <<"-">>>>, <<MB - 1, <<"+">>>>,
             <<MB, <<"+">>>>, <<MB, <<"-">>>>},
     inc \in {<<>>, <<<<"a">>, <<"c">>>>, <<<<"/", "r", "/", "?">>>>},
     exc \in {<<>>, <<<<"a">>>>, <<<<"/", "r", "/", "d", "/", "*">>>>},
     re \in {None, Some(<<"d">>)}}

\* One scan of one entry or subtree of the full tree under each of the
\* criteria.
InitMatch ==
  /\ fs = MatchFS
  /\ trashFiles = <<>>
  /\ meta = <<>>
  /\ now = 1
  /\ UnitsIdle
  /\ faults = 0
  /\ regularFiles = <<>>
  /\ directories = <<>>
  /\ workChan = <<>>
  /\ chanClosed = FALSE
  /\ stageCalls = 0
  /\ ops = 0
  /\ hist = <<>>
  /\ trashDirs = AllDirs
  /\ listed = NoListing
  /\ ac = NoCleanup
  /\ errors = <<>>
  /\ errMu = None
  /\ cfg \in {c \in Configs : FromCLI(c) /\ ~c.shred /\ ~c.xdev /\ c.workers = 1}
  /\ files = <<>>
  /\ scanOpts \in {Some(o) : o \in MatchChoices}
  /\ \E target \in DOMAIN MatchFS, recursive \in BOOLEAN :
       flags = [NoFlags EXCEPT !.recursive = recursive, !.targets = <<target>>]
  /\ proc = [q \in Procs |-> IdleFrame(IF q = Caller THEN "scan" ELSE "none")]
  /\ disp = <<>>
  /\ cbLog = <<>>

SpecMatch == InitMatch /\ [][NextScan]_vars

\* ------------------------------------------------------------------ trash: Restore, List

\* Most trash operations the client starts in one run.
MaxOps == 3

\* Mutant: a test of the base name alone.
MatchesBaseNameOnly(entry, filename) == Base(entry.OriginalPath) = filename

\* Restore's test of one record against the name asked for.
Matches(entry, filename) ==
  Base(entry.OriginalPath) = filename \/ Contains(entry.OriginalPath, filename)

\* The record Restore acts on: os.ReadDir lists the metadata directory in
\* file name order, a record that cannot be read is passed over, and the
\* first record that matches is taken.  None when no record matches.
FirstMatch(filename, unreadable) ==
  LET names == SortPaths((DOMAIN meta) \ unreadable)
      hits == {i \in 1..Len(names) : Matches(meta[names[i]], filename)}
  IN IF hits = {} THEN None
     ELSE Some(names[CHOOSE i \in hits : \A j \in hits : i <= j])

\* The trash name of a record's staged path.
StagedName(entry) == Base(entry.TrashPath)

\* The directories above p, the root directory excluded.
RECURSIVE Ancestors(_)
Ancestors(p) ==
  IF LastSep(p) <= 1 THEN {} ELSE {Dir(p)} \cup Ancestors(Dir(p))

\* os.MkdirAll(dir) succeeds unless a file is in the way.
MkdirAllOK(fsys, dir) ==
  \A a \in Ancestors(dir) \cup {dir} : a \in DOMAIN fsys => fsys[a].isDir

\* The filesystem after os.MkdirAll(dir) at time t.
MkdirAll(fsys, dir, t) ==
  [a \in ((Ancestors(dir) \cup {dir}) \ DOMAIN fsys) |-> DirNode(t)] @@ fsys

\* Mutant: a check that never finds the location occupied.
ExistsNever(fsys, p) == FALSE

\* Restore, lines 136 and 141: os.Stat finds something at the path.
Exists(fsys, p) == p \in DOMAIN fsys

\* Mutant: Restore going on to the metadata after a failed move.
RestoreFailedIgnored(q) == [proc EXCEPT ![q].pc = "rs_meta"]

\* Restore, lines 153-155: the copy failed too, the error is returned.
RestoreFailed(q) == Return(q, ErrRestore)

\* Restore, lines 110-149: the search, the two checks and the parent
\* directory.
RsFind(q) ==
  /\ proc[q].pc = "rs_find"
  /\ \E unreadable \in {{}} \cup {{n} : n \in {m \in DOMAIN meta : MayFail}} :
       LET found == FirstMatch(proc[q].path, unreadable)
           entry == meta[found[1]]
       IN /\ faults' = faults + Cardinality(unreadable)
          /\ IF found = None
             THEN /\ proc' = Return(q, ErrNotFound)
                  /\ UNCHANGED fs
             ELSE IF StagedName(entry) \notin DOMAIN trashFiles
             THEN /\ proc' = Return(q, ErrStale)
                  /\ UNCHANGED fs
             ELSE IF Exists(fs, entry.OriginalPath)
             THEN /\ proc' = Return(q, ErrConflict)
                  /\ UNCHANGED fs
             ELSE IF ~MkdirAllOK(fs, Dir(entry.OriginalPath))
             THEN /\ proc' = Return(q, ErrParent)
                  /\ UNCHANGED fs
             ELSE /\ fs' = MkdirAll(fs, Dir(entry.OriginalPath), now)
                  /\ proc' = [proc EXCEPT ![q].pc = "rs_move",
                                          ![q].name = found[1]]
  /\ UNCHANGED <<trashFiles, meta, now, deleterVars, disp, cbLog, stageCalls,
                 clientVars>>

\* Restore, lines 151-157: the rename back, or the copy and the removal of
\* the staged data when the rename fails.
RsMove(q) ==
  /\ proc[q].pc = "rs_move"
  /\ LET entry == meta[proc[q].name]
         n == StagedName(entry)
         p == entry.OriginalPath
         renameOK == ~cfg.xdev /\ n \in DOMAIN trashFiles /\ p \notin DOMAIN fs
                     /\ MkdirAllOK(fs, Dir(p)) /\ Dir(p) \in DOMAIN fs
         copyOK == n \in DOMAIN trashFiles /\ Dir(p) \in DOMAIN fs
                   /\ (p \in DOMAIN fs => fs[p].isDir = trashFiles[n][<<>>].isDir)
     IN \/ /\ renameOK
           /\ fs' = Graft(fs, p, trashFiles[n])
           /\ trashFiles' = Without(trashFiles, {n})
           /\ proc' = [proc EXCEPT ![q].pc = "rs_meta"]
           /\ UNCHANGED faults
        \/ /\ ~renameOK
           /\ copyOK
           /\ fs' = Graft(fs, p, trashFiles[n])
           /\ \/ /\ trashFiles' = Without(trashFiles, {n})
                 /\ UNCHANGED faults
              \/ /\ MayFail
                 /\ faults' = faults + 1
                 /\ UNCHANGED trashFiles
           /\ proc' = [proc EXCEPT ![q].pc = "rs_meta"]
        \/ /\ ~renameOK
           /\ ~copyOK
           /\ proc' = RestoreFailed(q)
           /\ UNCHANGED <<fs, trashFiles, faults>>
        \/ /\ ~renameOK
           /\ copyOK
           /\ MayFail
           /\ faults' = faults + 1
           /\ fs' \in {fs, Graft(fs, p, PartialBody(trashFiles[n][<<>>]))}
           /\ proc' = RestoreFailed(q)
           /\ UNCHANGED trashFiles
  /\ UNCHANGED <<meta, now, deleterVars, disp, cbLog, stageCalls, clientVars>>

\* Restore, lines 159-162: os.Remove(metaPath), its error ignored.
RsMeta(q) ==
  /\ proc[q].pc = "rs_meta"
  /\ \/ /\ meta' = Without(meta, {proc[q].name})
        /\ UNCHANGED faults
     \/ /\ MayFail
        /\ faults' = faults + 1
        /\ UNCHANGED meta
  /\ proc' = Return(q, Nil)
  /\ UNCHANGED <<fs, trashFiles, now, deleterVars, disp, cbLog, stageCalls,
                 clientVars>>

\* The size List reports for a staged tree: the sum of its files' sizes.
RECURSIVE SumSizes(_, _)
SumSizes(body, rels) ==
  IF rels = {} THEN 0
  ELSE LET r == CHOOSE x \in rels : TRUE
       IN (IF body[r].isDir THEN 0 ELSE body[r].size) + SumSizes(body, rels \ {r})

\* List: the records whose staged data exists, in file name order, a
\* directory's size recomputed from the staged tree.
RECURSIVE ListFrom(_)
ListFrom(names) ==
  IF names = <<>> THEN <<>>
  ELSE LET e == meta[Head(names)]
           n == StagedName(e)
       IN (IF n \in DOMAIN trashFiles
           THEN <<IF trashFiles[n][<<>>].isDir
                  THEN [e EXCEPT !.Size = SumSizes(trashFiles[n], DOMAIN trashFiles[n])]
                  ELSE e>>
           ELSE <<>>) \o ListFrom(Tail(names))

List == ListFrom(SortPaths(DOMAIN meta))

\* ------------------------------------------------------------------ runs of the trash manager

\* The call the client is making, put in front of its history.
Called(op, arg) ==
  <<[op |-> op, arg |-> arg, done |-> FALSE, err |-> Nil, fs |-> fs,
     meta |-> meta, trashFiles |-> trashFiles, faults |-> faults]>>
    \o (IF hist = <<>> THEN <<>> ELSE <<hist[1]>>)

\* The client's frame for a call with argument arg.
ClientFrame(first, arg) ==
  [proc EXCEPT ![Caller] = [IdleFrame(first) EXCEPT !.path = arg, !.ret = "ret"]]

\* The names the client asks Restore for: the base names of the tree.
RestoreArgs == {Base(p) : p \in DOMAIN InitialFS}

\* trashMgr.MoveToTrash(path), called by the client.
ClientStage(p) ==
  /\ proc[Caller].pc = "idle"
  /\ ops < MaxOps
  /\ ops' = ops + 1
  /\ hist' = Called("stage", p)
  /\ proc' = ClientFrame("mt_stat", p)
  /\ stageCalls' = stageCalls + 1
  /\ trashDirs' = AllDirs
  /\ UNCHANGED <<fs, trashFiles, meta, now, faults, deleterVars, disp, cbLog,
                 listed, ac, cliVars, unitVars>>

\* handleRestore: trashMgr.Restore(filename).
ClientRestore(filename) ==
  /\ proc[Caller].pc = "idle"
  /\ ops < MaxOps
  /\ ops' = ops + 1
  /\ hist' = Called("restore", filename)
  /\ proc' = ClientFrame("rs_find", filename)
  /\ trashDirs' = AllDirs
  /\ UNCHANGED <<fs, trashFiles, meta, now, faults, deleterVars, disp, cbLog,
                 stageCalls, listed, ac, cliVars, unitVars>>

\* The call returns to the client.
ClientReturn ==
  /\ proc[Caller].pc = "ret"
  /\ hist' = [hist EXCEPT ![1].done = TRUE, ![1].err = proc[Caller].err]
  /\ proc' = [proc EXCEPT ![Caller].pc = "idle"]
  /\ UNCHANGED <<fs, trashFiles, meta, now, faults, deleterVars, disp, cbLog,
                 stageCalls, ops, managerVars, cliVars, unitVars>>

\* The user writes a new file where a file of the tree was.
Create(p) ==
  /\ proc[Caller].pc = "idle"
  /\ ops < MaxOps
  /\ ~InitialFS[p].isDir
  /\ p \notin DOMAIN fs
  /\ Dir(p) \in DOMAIN fs
  /\ fs[Dir(p)].isDir
  /\ fs' = (p :> FileNode(2, "new", now)) @@ fs
  /\ ops' = ops + 1
  /\ hist' = [Called("create", p) EXCEPT ![1].done = TRUE]
  /\ UNCHANGED <<trashFiles, meta, now, faults, deleterVars, proc, disp, cbLog,
                 stageCalls, managerVars, cliVars, unitVars>>

InitTrash ==
  /\ InitCommon
  /\ cfg \in {c \in Configs : c.trash /\ ~c.shred /\ c.callback /\ c.workers = 1
                              /\ c.entry = "DeleteSingle"}
  /\ files = <<>>
  /\ scanOpts = None
  /\ flags = NoFlags
  /\ proc = [q \in Procs |-> IdleFrame(IF q = Caller THEN "idle" ELSE "none")]
  /\ disp = <<>>
  /\ cbLog = <<>>

NextTrash ==
  \/ \E p \in DOMAIN InitialFS : ClientStage(p)
  \/ \E filename \in RestoreArgs : ClientRestore(filename)
  \/ \E p \in DOMAIN InitialFS : Create(p)
  \/ ClientReturn
  \/ MtStat(Caller)
  \/ MtMove(Caller)
  \/ MtUnlink(Caller)
  \/ MtMeta(Caller)
  \/ RsFind(Caller)
  \/ RsMove(Caller)
  \/ RsMeta(Caller)

SpecTrash == InitTrash /\ [][NextTrash]_vars

\* ------------------------------------------------------------------ trash: List, AutoCleanup, Empty

\* The sets of records a reading of the metadata directory may fail to read.
Unreadables == {{}} \cup {{n} : n \in {m \in DOMAIN meta : MayFail}}

\* List when the records in `unreadable` cannot be read: they are passed over.
ListSkipping(unreadable) == ListFrom(SortPaths((DOMAIN meta) \ unreadable))

\* Mutant: a total that stops at the first entry.
TotalSizeOfFirst(entries) == IF entries = <<>> THEN 0 ELSE Head(entries).Size

\* List, line 209: totalSize += trashEntry.Size.
RECURSIVE TotalSize(_)
TotalSize(entries) ==
  IF entries = <<>> THEN 0 ELSE Head(entries).Size + TotalSize(Tail(entries))

\* handleShowTrash: NewManager, then List; os.ReadDir may fail.
ClientList ==
  /\ proc[Caller].pc = "idle"
  /\ ops < MaxOps
  /\ ops' = ops + 1
  /\ hist' = [Called("list", <<>>) EXCEPT ![1].done = TRUE]
  /\ trashDirs' = AllDirs
  /\ \/ \E u \in Unreadables :
          /\ faults' = faults + Cardinality(u)
          /\ listed' = [entries |-> ListSkipping(u),
                        totalSize |-> TotalSize(ListSkipping(u)), err |-> Nil]
     \/ /\ MayFail
        /\ faults' = faults + 1
        /\ listed' = [entries |-> <<>>, totalSize |-> 0, err |-> ErrReadDir]
  /\ UNCHANGED <<fs, trashFiles, meta, now, deleterVars, proc, disp, cbLog,
                 stageCalls, ac, cliVars, unitVars>>

\* The retention periods, in days (the unit of the clock), and the size
\* caps, in megabytes, the client asks for.
RetentionChoices == {0, 1}

MaxSizeChoices == {0, 1, 5}

\* handleCleanupTrash: NewManager, then AutoCleanup(retentionDays, maxSizeMB).
ClientCleanup(retentionDays, maxSizeMB) ==
  /\ proc[Caller].pc = "idle"
  /\ ops < MaxOps
  /\ ops' = ops + 1
  /\ hist' = Called("cleanup", <<>>)
  /\ trashDirs' = AllDirs
  /\ ac' = [NoCleanup EXCEPT !.retentionDays = retentionDays,
                             !.maxSizeMB = maxSizeMB]
  /\ proc' = ClientFrame("ac_list", <<>>)
  /\ UNCHANGED <<fs, trashFiles, meta, now, faults, deleterVars, disp, cbLog,
                 stageCalls, listed, cliVars, unitVars>>

\* AutoCleanup, lines 247-261: List, the early return, the cap, the clock
\* and the cutoff.
AcList(q) ==
  /\ proc[q].pc = "ac_list"
  /\ \/ /\ MayFail
        /\ faults' = faults + 1
        /\ proc' = Return(q, ErrReadDir)
        /\ UNCHANGED <<ac, now, cliVars, unitVars>>
     \/ \E u \in Unreadables :
          LET entries == ListSkipping(u)
          IN /\ faults' = faults + Cardinality(u)
             /\ IF Len(entries) = 0
                THEN /\ proc' = Return(q, Nil)
                     /\ UNCHANGED <<ac, now, cliVars, unitVars>>
                ELSE \E t \in ClockReadings :
                       /\ now' = t
                       /\ ac' = [ac EXCEPT
                                   !.entries = entries,
                                   !.totalSize = TotalSize(entries),
                                   !.maxSizeBytes = ac.maxSizeMB * MB,
                                   !.cutoffTime = t - ac.retentionDays]
                       /\ proc' = [proc EXCEPT ![q].pc = "ac_phase1", ![q].i = 1]
  /\ UNCHANGED <<fs, trashFiles, meta, deleterVars, disp, cbLog, stageCalls,
                 ops, hist, trashDirs, listed, cliVars, unitVars>>

\* AutoCleanup, lines 266 and 297: `err == nil`, the removal is counted.
Counted(ok) == ok

\* AutoCleanup, lines 266-272 and 297-305: os.RemoveAll(entry.TrashPath),
\* counted when it succeeds, then os.Remove(metaPath) whatever came of it,
\* its error ignored.  The new values of trashFiles, meta, faults and ac.
RemoveEntry(entry, phase) ==
  \E dataOK \in {TRUE} \cup {b \in {FALSE} : MayFail} :
    \E metaOK \in {TRUE} \cup {b \in {FALSE} : dataOK /\ MayFail} :
      LET n == StagedName(entry)
          count == Counted(dataOK)
      IN /\ trashFiles' = IF dataOK THEN Without(trashFiles, {n}) ELSE trashFiles
         /\ meta' = IF metaOK THEN Without(meta, {MetaName(n)}) ELSE meta
         /\ faults' = faults + (IF dataOK THEN 0 ELSE 1) + (IF metaOK THEN 0 ELSE 1)
         /\ ac' = [ac EXCEPT
                     !.bytesFreed = IF count THEN @ + entry.Size ELSE @,
                     !.itemsRemoved = IF count THEN @ + 1 ELSE @,
                     !.newTotalSize = IF count /\ phase = 2 THEN @ - entry.Size ELSE @,
                     !.removed = Append(@, [entry |-> entry, phase |-> phase,
                                            dataOK |-> dataOK, metaOK |-> metaOK])]

\* Mutant: a first pass that compares the other way round.
IsYoung(entry, cutoffTime) == entry.DeletedAt > cutoffTime

\* AutoCleanup, line 265: entry.DeletedAt.Before(cutoffTime).
IsOld(entry, cutoffTime) == entry.DeletedAt < cutoffTime

\* AutoCleanup, lines 264-274: one turn of the first loop.
AcPhase1(q) ==
  /\ proc[q].pc = "ac_phase1"
  /\ IF proc[q].i > Len(ac.entries)
     THEN /\ proc' = [proc EXCEPT ![q].pc = "ac_check"]
          /\ UNCHANGED <<trashFiles, meta, faults, ac, cliVars, unitVars>>
     ELSE /\ proc' = [proc EXCEPT ![q].i = @ + 1]
          /\ IF IsOld(ac.entries[proc[q].i], ac.cutoffTime)
             THEN RemoveEntry(ac.entries[proc[q].i], 1)
             ELSE UNCHANGED <<trashFiles, meta, faults, ac, cliVars, unitVars>>
  /\ UNCHANGED <<fs, now, deleterVars, disp, cbLog, stageCalls, ops, hist,
                 trashDirs, listed, cliVars, unitVars>>

\* AutoCleanup, lines 283-289: the sort of `remaining` by deletion time.
RECURSIVE AgePass(_, _, _)
AgePass(remaining, j, last) ==
  IF j > last THEN remaining
  ELSE AgePass(
         IF remaining[j].DeletedAt > remaining[j + 1].DeletedAt
         THEN [remaining EXCEPT ![j] = remaining[j + 1], ![j + 1] = remaining[j]]
         ELSE remaining,
         j + 1, last)

RECURSIVE AgeFrom(_, _)
AgeFrom(remaining, i) ==
  IF i >= Len(remaining) - 1 THEN remaining
  ELSE AgeFrom(AgePass(remaining, 1, Len(remaining) - i - 1), i + 1)

\* Mutant: `remaining` left in the order List gave it.
Unsorted(remaining) == remaining

SortByDeletedAt(remaining) == AgeFrom(remaining, 0)

\* Mutant: a second pass that never starts.
NeverOverCap(total, cap) == FALSE

\* AutoCleanup, lines 278 and 293: the size is over the cap.
OverCap(total, cap) == total > cap

\* AutoCleanup, lines 277-289: the size left, and when it is over the cap
\* the second List (its error ignored) and the sort.
AcCheck(q) ==
  /\ proc[q].pc = "ac_check"
  /\ LET newTotalSize == ac.totalSize - ac.bytesFreed
     IN IF OverCap(newTotalSize, ac.maxSizeBytes)
        THEN /\ \/ \E u \in Unreadables :
                     /\ faults' = faults + Cardinality(u)
                     /\ ac' = [ac EXCEPT
                                 !.newTotalSize = newTotalSize,
                                 !.remaining = SortByDeletedAt(ListSkipping(u))]
                \/ /\ MayFail
                   /\ faults' = faults + 1
                   /\ ac' = [ac EXCEPT !.newTotalSize = newTotalSize,
                                       !.remaining = <<>>]
             /\ proc' = [proc EXCEPT ![q].pc = "ac_phase2", ![q].i = 1]
        ELSE /\ ac' = [ac EXCEPT !.newTotalSize = newTotalSize]
             /\ proc' = Return(q, Nil)
             /\ UNCHANGED faults
  /\ UNCHANGED <<fs, trashFiles, meta, now, deleterVars, disp, cbLog,
                 stageCalls, ops, hist, trashDirs, listed, cliVars, unitVars>>

\* AutoCleanup, lines 292-309: one turn of the second loop, or the return.
AcPhase2(q) ==
  /\ proc[q].pc = "ac_phase2"
  /\ IF \/ proc[q].i > Len(ac.remaining)
        \/ ~OverCap(ac.newTotalSize, ac.maxSizeBytes)
     THEN /\ proc' = Return(q, Nil)
          /\ UNCHANGED <<trashFiles, meta, faults, ac, cliVars, unitVars>>
     ELSE /\ proc' = [proc EXCEPT ![q].i = @ + 1]
          /\ RemoveEntry(ac.remaining[proc[q].i], 2)
  /\ UNCHANGED <<fs, now, deleterVars, disp, cbLog, stageCalls, ops, hist,
                 trashDirs, listed, cliVars, unitVars>>

\* trashMgr.Empty(), called on the manager the client holds.
ClientEmpty ==
  /\ proc[Caller].pc = "idle"
  /\ ops < MaxOps
  /\ ops' = ops + 1
  /\ hist' = Called("empty", <<>>)
  /\ proc' = ClientFrame("em_files", <<>>)
  /\ UNCHANGED <<fs, trashFiles, meta, now, faults, deleterVars, disp, cbLog,
                 stageCalls, managerVars, cliVars, unitVars>>

\* Empty, lines 219-221: os.RemoveAll(m.trashDir); a failure may leave the
\* directory emptied or untouched.
EmFiles(q) ==
  /\ proc[q].pc = "em_files"
  /\ \/ /\ trashFiles' = <<>>
        /\ trashDirs' = trashDirs \ {"files"}
        /\ proc' = [proc EXCEPT ![q].pc = "em_meta"]
        /\ UNCHANGED faults
     \/ /\ MayFail
        /\ "files" \in trashDirs
        /\ faults' = faults + 1
        /\ trashFiles' \in {trashFiles, <<>>}
        /\ proc' = Return(q, ErrEmpty)
        /\ UNCHANGED trashDirs
  /\ UNCHANGED <<fs, meta, now, deleterVars, disp, cbLog, stageCalls, ops, hist,
                 listed, ac, cliVars, unitVars>>

\* Empty, lines 224-226: os.RemoveAll(m.metaDir).
EmMeta(q) ==
  /\ proc[q].pc = "em_meta"
  /\ \/ /\ meta' = <<>>
        /\ trashDirs' = trashDirs \ {"meta"}
        /\ proc' = [proc EXCEPT ![q].pc = "em_mkdir"]
        /\ UNCHANGED faults
     \/ /\ MayFail
        /\ "meta" \in trashDirs
        /\ faults' = faults + 1
        /\ meta' \in {meta, <<>>}
        /\ proc' = Return(q, ErrRemoveMetadata)
        /\ UNCHANGED trashDirs
  /\ UNCHANGED <<fs, trashFiles, now, deleterVars, disp, cbLog, stageCalls, ops,
                 hist, listed, ac, cliVars, unitVars>>

\* Mutant: an Empty that does not make the directories again.
NoDirs == {}

\* Empty, lines 229-234: both directories are made again.
Recreated == AllDirs

\* Empty, lines 229-236: os.MkdirAll of the two directories, in turn.
EmMkdir(q) ==
  /\ proc[q].pc = "em_mkdir"
  /\ \/ /\ trashDirs' = trashDirs \cup Recreated
        /\ proc' = Return(q, Nil)
        /\ UNCHANGED faults
     \/ /\ MayFail
        /\ faults' = faults + 1
        /\ trashDirs' \in {trashDirs, trashDirs \cup {"files"}}
        /\ proc' = Return(q, ErrMkdir)
  /\ UNCHANGED <<fs, trashFiles, meta, now, deleterVars, disp, cbLog,
                 stageCalls, ops, hist, listed, ac, cliVars, unitVars>>

InitCleanup == InitTrash

NextCleanup ==
  \/ \E p \in DOMAIN InitialFS : ClientStage(p)
  \/ ClientList
  \/ \E r \in RetentionChoices : \E m \in MaxSizeChoices : ClientCleanup(r, m)
  \/ ClientEmpty
  \/ ClientReturn
  \/ MtStat(Caller)
  \/ MtMove(Caller)
  \/ MtUnlink(Caller)
  \/ MtMeta(Caller)
  \/ AcList(Caller)
  \/ AcPhase1(Caller)
  \/ AcCheck(Caller)
  \/ AcPhase2(Caller)
  \/ EmFiles(Caller)
  \/ EmMeta(Caller)
  \/ EmMkdir(Caller)

SpecCleanup == InitCleanup /\ [][NextCleanup]_vars

\* ------------------------------------------------------------------ runs of Execute

\* The file an earlier run moved to the trash, at the first clock reading.
StagedZ == FileNode(MB, "Z", 1)

\* The trash the runs of Execute start with: the staged file and its record.
TrashBefore == TrashName(1, PathZ) :> (<<>> :> StagedZ)

MetaBefore ==
  MetaName(TrashName(1, PathZ)) :> TrashEntry(PathZ, TrashName(1, PathZ), 1, StagedZ)

\* The command lines: every combination of --dry-run, --empty-trash,
\* --cleanup-trash, --show-trash and --restore=z, with no target, a
\* directory, a file or a repository directory as target, with and without
\* --recursive.
CommandLines ==
  [recursive : BOOLEAN, dryRun : BOOLEAN, emptyTrash : BOOLEAN,
   cleanupTrash : BOOLEAN, showTrash : BOOLEAN,
   restoreFile : {<<>>, <<"z">>},
   targets : {<<>>, <<Root>>, <<PathA>>, <<PathGit>>}]

\* One of the special commands is on the command line.
SpecialCommand ==
  flags.emptyTrash \/ flags.cleanupTrash \/ flags.showTrash \/ flags.restoreFile # <<>>

\* The frame of Execute inside a call of the trash manager, which returns to
\* the end of Execute.
ExecuteFrame(first, arg) ==
  [proc EXCEPT ![Caller] = [IdleFrame(first) EXCEPT !.path = arg, !.ret = "exit"]]

\* Execute, lines 59-61, and handleEmptyTrash: NewManager, List, the return
\* on an empty trash, the question, and Empty when the answer is yes.
HandleEmptyTrash ==
  /\ proc[Caller].pc = "exec"
  /\ flags.emptyTrash
  /\ trashDirs' = AllDirs
  /\ \/ \E u \in Unreadables : \E answer \in BOOLEAN :
          /\ faults' = faults + Cardinality(u)
          /\ listed' = [entries |-> ListSkipping(u),
                        totalSize |-> TotalSize(ListSkipping(u)), err |-> Nil]
          /\ proc' = IF Len(ListSkipping(u)) = 0 \/ ~answer
                     THEN [proc EXCEPT ![Caller].pc = "exit"]
                     ELSE ExecuteFrame("em_files", <<>>)
     \/ /\ MayFail
        /\ faults' = faults + 1
        /\ listed' = [entries |-> <<>>, totalSize |-> 0, err |-> ErrReadDir]
        /\ proc' = [proc EXCEPT ![Caller].pc = "exit", ![Caller].err = ErrReadDir]
  /\ UNCHANGED <<fs, trashFiles, meta, now, deleterVars, disp, cbLog,
                 stageCalls, ops, hist, ac, cliVars, unitVars>>

\* Execute, lines 63-65, and handleCleanupTrash: LoadConfig, NewManager and
\* AutoCleanup with the retention and the cap of the configuration.
HandleCleanupTrash(retentionDays, maxSizeMB) ==
  /\ proc[Caller].pc = "exec"
  /\ ~flags.emptyTrash
  /\ flags.cleanupTrash
  /\ trashDirs' = AllDirs
  /\ ac' = [NoCleanup EXCEPT !.retentionDays = retentionDays,
                             !.maxSizeMB = maxSizeMB]
  /\ proc' = ExecuteFrame("ac_list", <<>>)
  /\ UNCHANGED <<fs, trashFiles, meta, now, faults, deleterVars, disp, cbLog,
                 stageCalls, ops, hist, listed, cliVars, unitVars>>

\* Execute, lines 67-69, and handleShowTrash: NewManager and List.
HandleShowTrash ==
  /\ proc[Caller].pc = "exec"
  /\ ~flags.emptyTrash
  /\ ~flags.cleanupTrash
  /\ flags.showTrash
  /\ trashDirs' = AllDirs
  /\ \/ \E u \in Unreadables :
          /\ faults' = faults + Cardinality(u)
          /\ listed' = [entries |-> ListSkipping(u),
                        totalSize |-> TotalSize(ListSkipping(u)), err |-> Nil]
          /\ proc' = [proc EXCEPT ![Caller].pc = "exit"]
     \/ /\ MayFail
        /\ faults' = faults + 1
        /\ listed' = [entries |-> <<>>, totalSize |-> 0, err |-> ErrReadDir]
        /\ proc' = [proc EXCEPT ![Caller].pc = "exit", ![Caller].err = ErrReadDir]
  /\ UNCHANGED <<fs, trashFiles, meta, now, deleterVars, disp, cbLog,
                 stageCalls, ops, hist, ac, cliVars, unitVars>>

\* Execute, lines 71-73, and handleRestore: NewManager and Restore.
HandleRestore ==
  /\ proc[Caller].pc = "exec"
  /\ ~flags.emptyTrash
  /\ ~flags.cleanupTrash
  /\ ~flags.showTrash
  /\ flags.restoreFile # <<>>
  /\ trashDirs' = AllDirs
  /\ proc' = ExecuteFrame("rs_find", flags.restoreFile)
  /\ UNCHANGED <<fs, trashFiles, meta, now, faults, deleterVars, disp, cbLog,
                 stageCalls, ops, hist, listed, ac, cliVars, unitVars>>

\* Execute, lines 76-79: no special command and no target, the help text.
ExecuteHelp ==
  /\ proc[Caller].pc = "exec"
  /\ ~SpecialCommand
  /\ flags.targets = <<>>
  /\ proc' = [proc EXCEPT ![Caller].pc = "exit"]
  /\ UNCHANGED <<fs, trashFiles, meta, now, faults, deleterVars, disp, cbLog,
                 stageCalls, clientVars>>

\* Execute, lines 81-92: LoadConfig and createFilterOptions, on to
\* scanTargets.
ExecuteTargets ==
  /\ proc[Caller].pc = "exec"
  /\ ~SpecialCommand
  /\ flags.targets # <<>>
  /\ proc' = [proc EXCEPT ![Caller].pc = "scan"]
  /\ UNCHANGED <<fs, trashFiles, meta, now, faults, deleterVars, disp, cbLog,
                 stageCalls, clientVars>>

\* Execute, lines 97-100: nothing matches.
ExecuteNoFiles ==
  /\ proc[Caller].pc = "scanned"
  /\ Len(files) = 0
  /\ proc' = [proc EXCEPT ![Caller].pc = "exit"]
  /\ UNCHANGED <<fs, trashFiles, meta, now, faults, deleterVars, disp, cbLog,
                 stageCalls, clientVars>>

\* Execute, lines 114-121: the dry run lists the candidates and returns.
ExecuteDryRun ==
  /\ proc[Caller].pc = "scanned"
  /\ Len(files) > 0
  /\ flags.dryRun
  /\ proc' = [proc EXCEPT ![Caller].pc = "exit"]
  /\ UNCHANGED <<fs, trashFiles, meta, now, faults, deleterVars, disp, cbLog,
                 stageCalls, clientVars>>

\* Execute, lines 129-142: the user declines the confirmation or aborts
\* the countdown.
ExecuteCancel ==
  /\ proc[Caller].pc = "scanned"
  /\ Len(files) > 0
  /\ ~flags.dryRun
  /\ proc' = [proc EXCEPT ![Caller].pc = "exit"]
  /\ UNCHANGED <<fs, trashFiles, meta, now, faults, deleterVars, disp, cbLog,
                 stageCalls, clientVars>>

\* Execute, line 145, and performDeletion up to del.Delete(files,
\* onProgress): the candidates are handed to the Deleter.
PerformDeletion ==
  /\ proc[Caller].pc = "scanned"
  /\ Len(files) > 0
  /\ ~flags.dryRun
  /\ trashDirs' = AllDirs
  /\ proc' = [proc EXCEPT ![Caller].pc = "start"]
  /\ disp' = [i \in 1..Len(files) |-> "todo"]
  /\ cbLog' = [i \in 1..Len(files) |-> <<>>]
  /\ UNCHANGED <<fs, trashFiles, meta, now, faults, deleterVars, stageCalls,
                 ops, hist, listed, ac, cliVars, unitVars>>

\* A run of the program on each command line, in a tree with a repository
\* directory and a trash that holds one file.
InitExecute ==
  /\ fs = ScanFS
  /\ trashFiles = TrashBefore
  /\ meta = MetaBefore
  /\ now = 1
  /\ UnitsIdle
  /\ faults = 0
  /\ regularFiles = <<>>
  /\ directories = <<>>
  /\ workChan = <<>>
  /\ chanClosed = FALSE
  /\ stageCalls = 0
  /\ ops = 0
  /\ hist = <<>>
  /\ trashDirs = AllDirs
  /\ listed = NoListing
  /\ ac = NoCleanup
  /\ errors = <<>>
  /\ errMu = None
  /\ cfg \in {c \in Configs : FromCLI(c) /\ c.workers = 1}
  /\ files = <<>>
  /\ scanOpts \in {Some(o) : o \in FilterChoices \ {None}}
  /\ flags \in CommandLines
  /\ proc = [q \in Procs |-> IdleFrame(IF q = Caller THEN "exec" ELSE "none")]
  /\ disp = <<>>
  /\ cbLog = <<>>

NextExecute ==
  \/ HandleEmptyTrash
  \/ \E r \in RetentionChoices : \E m \in MaxSizeChoices : HandleCleanupTrash(r, m)
  \/ HandleShowTrash
  \/ HandleRestore
  \/ ExecuteHelp
  \/ ExecuteTargets
  \/ ScanTargets
  \/ ExecuteNoFiles
  \/ ExecuteDryRun
  \/ ExecuteCancel
  \/ PerformDeletion
  \/ DeleteStart
  \/ DeleteSend
  \/ DeleteClose
  \/ DeleteWait
  \/ DeleteSort
  \/ DeleteDir
  \/ DeleteDirCallback
  \/ DeleteReturn
  \/ \E w \in Workers : WorkerRecv(w) \/ WorkerExit(w) \/ WorkerCallback(w)
  \/ \E q \in Procs :
       \/ MtStat(q)
       \/ MtMove(q)
       \/ MtUnlink(q)
       \/ MtMeta(q)
       \/ RemovePath(q)
       \/ ShredOpen(q)
       \/ ShredPass(q)
       \/ ErrLock(q)
       \/ ErrAppend(q)
  \/ RsFind(Caller)
  \/ RsMove(Caller)
  \/ RsMeta(Caller)
  \/ AcList(Caller)
  \/ AcPhase1(Caller)
  \/ AcCheck(Caller)
  \/ AcPhase2(Caller)
  \/ EmFiles(Caller)
  \/ EmMeta(Caller)
  \/ EmMkdir(Caller)

SpecExecute == InitExecute /\ [][NextExecute]_vars

\* ------------------------------------------------------------------ runs of the trash store

\* A client that calls MoveToTrash, Restore, AutoCleanup and Empty one after
\* the other, no call of the filesystem failing by itself.
InitStore ==
  /\ fs = InitialFS
  /\ trashFiles = <<>>
  /\ meta = <<>>
  /\ now = 1
  /\ UnitsIdle
  /\ faults = MaxFaults
  /\ regularFiles = <<>>
  /\ directories = <<>>
  /\ workChan = <<>>
  /\ chanClosed = FALSE
  /\ stageCalls = 0
  /\ ops = 0
  /\ hist = <<>>
  /\ trashDirs = AllDirs
  /\ listed = NoListing
  /\ ac = NoCleanup
  /\ errors = <<>>
  /\ errMu = None
  /\ cfg \in {c \in Configs : c.trash /\ ~c.shred /\ c.callback /\ c.workers = 1
                              /\ c.entry = "DeleteSingle"}
  /\ files = <<>>
  /\ scanOpts = None
  /\ flags = NoFlags
  /\ proc = [q \in Procs |-> IdleFrame(IF q = Caller THEN "idle" ELSE "none")]
  /\ disp = <<>>
  /\ cbLog = <<>>

NextStore ==
  \/ \E p \in DOMAIN InitialFS : ClientStage(p)
  \/ \E filename \in RestoreArgs : ClientRestore(filename)
  \/ \E r \in RetentionChoices : \E m \in MaxSizeChoices : ClientCleanup(r, m)
  \/ ClientEmpty
  \/ ClientReturn
  \/ MtStat(Caller)
  \/ MtMove(Caller)
  \/ MtUnlink(Caller)
  \/ MtMeta(Caller)
  \/ RsFind(Caller)
  \/ RsMove(Caller)
  \/ RsMeta(Caller)
  \/ AcList(Caller)
  \/ AcPhase1(Caller)
  \/ AcCheck(Caller)
  \/ AcPhase2(Caller)
  \/ EmFiles(Caller)
  \/ EmMeta(Caller)
  \/ EmMkdir(Caller)

SpecStore == InitStore /\ [][NextStore]_vars

\* ------------------------------------------------------------------ runs of the copy fallback

\* A client that calls MoveToTrash with the trash on another volume, so that
\* every os.Rename fails and copyPath is used. Two filesystem calls may fail
\* by themselves: the removal of the original and the clean-up after it.
InitFallback ==
  /\ fs = InitialFS
  /\ trashFiles = <<>>
  /\ meta = <<>>
  /\ now = 1
  /\ UnitsIdle
  /\ faults = MaxFaults - 2
  /\ regularFiles = <<>>
  /\ directories = <<>>
  /\ workChan = <<>>
  /\ chanClosed = FALSE
  /\ stageCalls = 0
  /\ ops = 0
  /\ hist = <<>>
  /\ trashDirs = AllDirs
  /\ listed = NoListing
  /\ ac = NoCleanup
  /\ errors = <<>>
  /\ errMu = None
  /\ cfg \in {c \in Configs : c.trash /\ c.xdev /\ ~c.shred /\ c.callback
                              /\ c.workers = 1 /\ c.entry = "DeleteSingle"}
  /\ files = <<>>
  /\ scanOpts = None
  /\ flags = NoFlags
  /\ proc = [q \in Procs |-> IdleFrame(IF q = Caller THEN "idle" ELSE "none")]
  /\ disp = <<>>
  /\ cbLog = <<>>

NextFallback ==
  \/ \E p \in DOMAIN InitialFS : ClientStage(p)
  \/ ClientReturn
  \/ MtStat(Caller)
  \/ MtMove(Caller)
  \/ MtUnlink(Caller)
  \/ MtMeta(Caller)

SpecFallback == InitFallback /\ [][NextFallback]_vars

\* ------------------------------------------------------------------ runs of countdownWithAbort

\* Execute, line 138: the countdown is shown for more than five files.
CountdownOver == 5

\* Execute, line 139: countdownWithAbort(5).
Seconds == 5

\* The signals a run receives at most.
MaxSignals == 2

\* The signals countdownWithAbort asks for.
Interrupts == {"SIGINT", "SIGTERM"}

\* What the steps of Execute's countdown leave alone.
notCountdown ==
  <<fs, trashFiles, meta, now, faults, deleterVars, proc, disp, cbLog,
    stageCalls, ops, hist, managerVars, cliVars, shr, sysLog, input, parsed>>

\* The process has not ended.
Alive == cd.caller \notin {"none", "killed", "aborted"}

\* The operating system delivers SIGINT or SIGTERM to the process. Between
\* signal.Notify and signal.Stop the runtime puts it in sigChan without
\* blocking, and drops it when the buffer is full; otherwise the signal ends
\* the process.
Signal(sig) ==
  /\ Alive
  /\ cd.delivered < MaxSignals
  /\ IF cd.notify
     THEN /\ sigChan' = IF Len(sigChan) < 1 THEN Append(sigChan, sig) ELSE sigChan
          /\ cd' = [cd EXCEPT !.delivered = cd.delivered + 1]
     ELSE /\ cd' = [cd EXCEPT !.caller = "killed", !.timer = "none"]
          /\ UNCHANGED sigChan
  /\ UNCHANGED <<done, notCountdown>>

\* Execute, lines 137-139: the test that guards the countdown.
CdExecute ==
  /\ cd.caller = "execute"
  /\ cd' = [cd EXCEPT !.caller = IF cd.count > CountdownOver /\ ~cd.noCountdown
                                  THEN "notify" ELSE "deleting"]
  /\ UNCHANGED <<sigChan, done, notCountdown>>

\* countdownWithAbort, lines 393-397: the two channels and signal.Notify.
CdNotify ==
  /\ cd.caller = "notify"
  /\ cd' = [cd EXCEPT !.caller = "go", !.notify = TRUE]
  /\ UNCHANGED <<sigChan, done, notCountdown>>

\* countdownWithAbort, lines 399-400: the goroutine is started with
\* i := seconds.
CdGo ==
  /\ cd.caller = "go"
  /\ cd' = [cd EXCEPT !.caller = "select", !.timer = "poll", !.i = Seconds]
  /\ UNCHANGED <<sigChan, done, notCountdown>>

\* The goroutine, lines 400-405: the loop test and the select with default.
CdPoll ==
  /\ Alive
  /\ cd.timer = "poll"
  /\ IF cd.i > 0
     THEN IF sigChan # <<>>
          THEN /\ sigChan' = Tail(sigChan)
               /\ cd' = [cd EXCEPT !.timer = "send_false",
                                   !.received = cd.received + 1]
          ELSE /\ cd' = [cd EXCEPT !.timer = "sleep"]
               /\ UNCHANGED sigChan
     ELSE /\ cd' = [cd EXCEPT !.timer = "send_true"]
          /\ UNCHANGED sigChan
  /\ UNCHANGED <<done, notCountdown>>

\* The goroutine, lines 406-408: time.Sleep returns, i--.
CdSleep ==
  /\ Alive
  /\ cd.timer = "sleep"
  /\ cd' = [cd EXCEPT !.timer = "poll", !.i = cd.i - 1]
  /\ UNCHANGED <<sigChan, done, notCountdown>>

\* The goroutine, lines 403 and 411: done <- false, done <- true.
CdSend ==
  /\ Alive
  /\ cd.timer \in {"send_false", "send_true"}
  /\ Len(done) < 1
  /\ done' = Append(done, cd.timer = "send_true")
  /\ cd' = [cd EXCEPT !.timer = "exit"]
  /\ UNCHANGED <<sigChan, notCountdown>>

\* countdownWithAbort, lines 414-419: the caller's select takes one of the
\* channels that are ready.
CdSelect ==
  /\ cd.caller = "select"
  /\ \/ /\ done # <<>>
        /\ done' = Tail(done)
        /\ cd' = [cd EXCEPT !.caller = "stop", !.result = Some(Head(done))]
        /\ UNCHANGED sigChan
     \/ /\ sigChan # <<>>
        /\ sigChan' = Tail(sigChan)
        /\ cd' = [cd EXCEPT !.caller = "stop", !.result = Some(FALSE),
                            !.received = cd.received + 1]
        /\ UNCHANGED done
  /\ UNCHANGED notCountdown

\* countdownWithAbort, line 395: the deferred signal.Stop(sigChan).
CdStop ==
  /\ cd.caller = "stop"
  /\ cd' = [cd EXCEPT !.caller = "returned", !.notify = FALSE]
  /\ UNCHANGED <<sigChan, done, notCountdown>>

\* Execute, lines 139-145: "Operation aborted", or performDeletion.
CdBranch ==
  /\ cd.caller = "returned"
  /\ cd' = [cd EXCEPT !.caller = IF cd.result = Some(FALSE)
                                  THEN "aborted" ELSE "deleting"]
  /\ UNCHANGED <<sigChan, done, notCountdown>>

InitCountdown ==
  /\ \E count \in {CountdownOver, CountdownOver + 1} : \E off \in BOOLEAN :
       cd = [IdleCountdown EXCEPT !.caller = "execute", !.count = count,
                                  !.noCountdown = off]
  /\ sigChan = <<>>
  /\ done = <<>>
  /\ shr = IdleShred
  /\ sysLog = <<>>
  /\ input = <<>>
  /\ parsed = <<>>
  /\ fs = InitialFS
  /\ trashFiles = <<>>
  /\ meta = <<>>
  /\ now = 1
  /\ faults = 0
  /\ regularFiles = <<>>
  /\ directories = <<>>
  /\ workChan = <<>>
  /\ chanClosed = FALSE
  /\ stageCalls = 0
  /\ ops = 0
  /\ hist = <<>>
  /\ trashDirs = AllDirs
  /\ listed = NoListing
  /\ ac = NoCleanup
  /\ errors = <<>>
  /\ errMu = None
  /\ cfg = [workers |-> 1, shred |-> FALSE, trash |-> TRUE, callback |-> TRUE,
            entry |-> "Delete", xdev |-> FALSE]
  /\ files = <<>>
  /\ scanOpts = None
  /\ flags = NoFlags
  /\ proc = [q \in Procs |-> IdleFrame("none")]
  /\ disp = <<>>
  /\ cbLog = <<>>

NextCountdown ==
  \/ \E sig \in Interrupts : Signal(sig)
  \/ CdExecute
  \/ CdNotify
  \/ CdGo
  \/ CdPoll
  \/ CdSleep
  \/ CdSend
  \/ CdSelect
  \/ CdStop
  \/ CdBranch

SpecCountdown == InitCountdown /\ [][NextCountdown]_vars

\* ------------------------------------------------------------------ runs of shredFile

\* shredFile, line 130: buf := make([]byte, 64*1024).
BufLen == 64 * 1024

ErrSeek == "seek"

ErrSync == "sync"

\* The recorded sizes and the sizes on disk: around one and two buffers.
ShredSizes ==
  {0, 1, BufLen - 1, BufLen, BufLen + 1, 2 * BufLen, 2 * BufLen + 1}

\* shredFile, lines 145-151: random bytes on even passes, zero bytes on odd.
Fill(pass) == IF pass % 2 = 0 THEN "random" ELSE "zero"

\* Mutant: the whole remainder in one write.
ToWriteAll(remaining) == remaining

\* shredFile, lines 139-142: a buffer, or what remains when that is less.
ToWrite(remaining) == IF BufLen > remaining THEN remaining ELSE BufLen

\* One call on the file, as it goes to the log.
Call(op, n, ok) ==
  [op |-> op, pass |-> shr.pass, off |-> shr.off, n |-> n,
   fill |-> IF op = "write" THEN Fill(shr.pass) ELSE "", ok |-> ok]

\* An error return of shredFile after f.Close().
ShredFails(op, n, err) ==
  /\ sysLog' = sysLog \o <<Call(op, n, FALSE), Call("close", 0, TRUE)>>
  /\ shr' = [shr EXCEPT !.pc = "return", !.err = err]

\* The file after n bytes of the pass were written at offset off.
WrittenAt(node, off, n, pass) ==
  [node EXCEPT
     !.size = IF off + n > node.size THEN off + n ELSE node.size,
     !.data = IF off + n >= node.size THEN Fill(pass) ELSE "mixed"]

\* shredFile, lines 120-123: os.OpenFile(file.Path, os.O_WRONLY, 0).
SfOpen ==
  /\ shr.pc = "open"
  /\ LET p == shr.path
         can == p \in DOMAIN fs /\ ~fs[p].isDir /\ fs[p].mode = "rwx"
     IN \/ /\ can
           /\ sysLog' = Append(sysLog, Call("open", 0, TRUE))
           /\ shr' = [shr EXCEPT !.pc = "seek", !.pass = 0]
           /\ UNCHANGED faults
        \/ /\ ~can \/ MayFail
           /\ faults' = IF can THEN faults + 1 ELSE faults
           /\ sysLog' = Append(sysLog, Call("open", 0, FALSE))
           /\ shr' = [shr EXCEPT !.pc = "return", !.err = ErrOpen]
  /\ UNCHANGED <<fs, trashFiles, meta, now, deleterVars, proc, disp, cbLog,
                 stageCalls, ops, hist, managerVars, cliVars, input, parsed,
                 sigChan, done, cd>>

\* shredFile, lines 132-138: f.Seek(0, 0) and remaining := size.
SfSeek ==
  /\ shr.pc = "seek"
  /\ \/ /\ sysLog' = Append(sysLog, Call("seek", 0, TRUE))
        /\ shr' = [shr EXCEPT !.off = 0, !.remaining = shr.size,
                              !.pc = IF shr.size > 0 THEN "write" ELSE "sync"]
        /\ UNCHANGED faults
     \/ /\ MayFail
        /\ faults' = faults + 1
        /\ ShredFails("seek", 0, ErrSeek)
  /\ UNCHANGED <<fs, trashFiles, meta, now, deleterVars, proc, disp, cbLog,
                 stageCalls, ops, hist, managerVars, cliVars, input, parsed,
                 sigChan, done, cd>>

\* shredFile, lines 139-159: one turn of `for remaining > 0`.
SfWrite ==
  /\ shr.pc = "write"
  /\ LET p == shr.path
         toWrite == ToWrite(shr.remaining)
         whole == [fs EXCEPT ![p] = WrittenAt(fs[p], shr.off, toWrite, shr.pass)]
         part == [fs EXCEPT ![p].data = "mixed"]
     IN \/ /\ fs' = whole
           /\ sysLog' = Append(sysLog, Call("write", toWrite, TRUE))
           /\ shr' = [shr EXCEPT
                        !.off = shr.off + toWrite,
                        !.remaining = shr.remaining - toWrite,
                        !.pc = IF shr.remaining - toWrite > 0
                               THEN "write" ELSE "sync"]
           /\ UNCHANGED faults
        \/ /\ MayFail
           /\ faults' = faults + 1
           /\ fs' \in {fs, part}
           /\ ShredFails("write", toWrite, ErrWrite)
  /\ UNCHANGED <<trashFiles, meta, now, deleterVars, proc, disp, cbLog,
                 stageCalls, ops, hist, managerVars, cliVars, input, parsed,
                 sigChan, done, cd>>

\* shredFile, lines 161-166 and 132: f.Sync(), then pass++ and the loop test.
SfSync ==
  /\ shr.pc = "sync"
  /\ \/ /\ sysLog' = Append(sysLog, Call("sync", 0, TRUE))
        /\ shr' = [shr EXCEPT !.pass = shr.pass + 1,
                              !.pc = IF shr.pass + 1 < Passes
                                     THEN "seek" ELSE "close"]
        /\ UNCHANGED faults
     \/ /\ MayFail
        /\ faults' = faults + 1
        /\ ShredFails("sync", 0, ErrSync)
  /\ UNCHANGED <<fs, trashFiles, meta, now, deleterVars, proc, disp, cbLog,
                 stageCalls, ops, hist, managerVars, cliVars, input, parsed,
                 sigChan, done, cd>>

\* shredFile, line 169: f.Close(), its error dropped.
SfClose ==
  /\ shr.pc = "close"
  /\ sysLog' = Append(sysLog, Call("close", 0, TRUE))
  /\ shr' = [shr EXCEPT !.pc = "remove"]
  /\ UNCHANGED <<fs, trashFiles, meta, now, faults, deleterVars, proc, disp,
                 cbLog, stageCalls, ops, hist, managerVars, cliVars, input,
                 parsed, sigChan, done, cd>>

\* shredFile, line 172: return os.Remove(file.Path).
SfRemove ==
  /\ shr.pc = "remove"
  /\ \/ /\ fs' = [p \in DOMAIN fs \ {shr.path} |-> fs[p]]
        /\ sysLog' = Append(sysLog, Call("remove", 0, TRUE))
        /\ shr' = [shr EXCEPT !.pc = "return", !.err = "nil"]
        /\ UNCHANGED faults
     \/ /\ MayFail
        /\ faults' = faults + 1
        /\ fs' = fs
        /\ sysLog' = Append(sysLog, Call("remove", 0, FALSE))
        /\ shr' = [shr EXCEPT !.pc = "return", !.err = ErrRemove]
  /\ UNCHANGED <<trashFiles, meta, now, deleterVars, proc, disp, cbLog,
                 stageCalls, ops, hist, managerVars, cliVars, input, parsed,
                 sigChan, done, cd>>

\* The file shredFile is called on: gone since the scan, a directory, not
\* writable, or a regular file of some size.
ShredTargets ==
  {<<>>, <<DirNode(1)>>, <<[FileNode(1, "A", 1) EXCEPT !.mode = "---"]>>}
    \cup {<<FileNode(n, "A", 1)>> : n \in ShredSizes}

InitShred ==
  /\ \E t \in ShredTargets :
       fs = IF t = <<>> THEN (Root :> DirNode(1))
            ELSE (Root :> DirNode(1)) @@ (PathA :> t[1])
  /\ \E size \in ShredSizes :
       shr = [IdleShred EXCEPT !.pc = "open", !.path = PathA, !.size = size]
  /\ sysLog = <<>>
  /\ input = <<>>
  /\ parsed = <<>>
  /\ sigChan = <<>>
  /\ done = <<>>
  /\ cd = IdleCountdown
  /\ trashFiles = <<>>
  /\ meta = <<>>
  /\ now = 1
  /\ faults = 0
  /\ regularFiles = <<>>
  /\ directories = <<>>
  /\ workChan = <<>>
  /\ chanClosed = FALSE
  /\ stageCalls = 0
  /\ ops = 0
  /\ hist = <<>>
  /\ trashDirs = AllDirs
  /\ listed = NoListing
  /\ ac = NoCleanup
  /\ errors = <<>>
  /\ errMu = None
  /\ cfg = [workers |-> 1, shred |-> TRUE, trash |-> FALSE, callback |-> FALSE,
            entry |-> "DeleteSingle", xdev |-> FALSE]
  /\ files = <<>>
  /\ scanOpts = None
  /\ flags = NoFlags
  /\ proc = [q \in Procs |-> IdleFrame("none")]
  /\ disp = <<>>
  /\ cbLog = <<>>

NextShred ==
  \/ SfOpen
  \/ SfSeek
  \/ SfWrite
  \/ SfSync
  \/ SfClose
  \/ SfRemove

SpecShred == InitShred /\ [][NextShred]_vars

\* ------------------------------------------------------------------ numbers

\* A number beyond the integers of the checker: its decimal digits, the most
\* significant first, without leading zeros; zero is <<0>>.
RECURSIVE Strip(_)
Strip(b) == IF Len(b) > 1 /\ b[1] = 0 THEN Strip(Tail(b)) ELSE b

RECURSIVE DigitsOf(_)
DigitsOf(n) == IF n < 10 THEN <<n>> ELSE Append(DigitsOf(n \div 10), n % 10)

\* b * f + carry, for f below 2^27.
RECURSIVE MulCarry(_, _, _)
MulCarry(b, f, carry) ==
  IF b = <<>> THEN DigitsOf(carry)
  ELSE LET v == b[Len(b)] * f + carry
       IN Append(MulCarry(SubSeq(b, 1, Len(b) - 1), f, v \div 10), v % 10)

MulSmall(b, f) == Strip(MulCarry(b, f, 0))

AddSmall(b, a) == Strip(MulCarry(b, 1, a))

\* Quotient and remainder of b by f, for f below 2^27.
RECURSIVE DivRem(_, _, _, _)
DivRem(b, f, rem, acc) ==
  IF b = <<>> THEN [q |-> Strip(acc), r |-> rem]
  ELSE LET v == rem * 10 + Head(b)
       IN DivRem(Tail(b), f, v % f, Append(acc, v \div f))

DivSmall(b, f) == DivRem(b, f, 0, <<0>>)

BigLess(a, b) ==
  \/ Len(a) < Len(b)
  \/ /\ Len(a) = Len(b)
     /\ \E i \in 1..Len(a) :
          a[i] < b[i] /\ \A j \in 1..(i - 1) : a[j] = b[j]

\* b * 2^n.
RECURSIVE Shl(_, _)
Shl(b, n) ==
  IF n = 0 THEN b
  ELSE IF n >= 20 THEN Shl(MulSmall(b, 2^20), n - 20)
  ELSE MulSmall(b, 2^n)

\* b / 2^n rounded down, and whether anything was cut off.
RECURSIVE Shr(_, _, _)
Shr(b, n, sticky) ==
  IF n = 0 THEN [q |-> b, sticky |-> sticky]
  ELSE LET k == IF n >= 20 THEN 20 ELSE n
           d == DivSmall(b, 2^k)
       IN Shr(d.q, n - k, sticky \/ d.r # 0)

\* b * 10^n.
Shl10(b, n) == Strip(b \o [i \in 1..n |-> 0])

Two53 == Shl(<<1>>, 53)

Two54 == Shl(<<1>>, 54)

Two63 == Shl(<<1>>, 63)

\* float64: the value m * 2^e with m at most 2^53; zero is m = <<0>>.
\* The number N / ten as a float64 (ten below 2^27): N / ten is scaled by a
\* power of two to 54 bits, q2, and the last bit is rounded to the nearest,
\* ties to even.
RECURSIVE ScaleUp(_, _, _)
ScaleUp(num, ten, sh) ==
  LET d == DivSmall(num, ten)
  IN IF ~BigLess(d.q, Two53) THEN [q2 |-> d.q, sticky |-> d.r # 0, sh |-> sh]
     ELSE ScaleUp(MulSmall(num, 2), ten, sh + 1)

RECURSIVE ScaleDown(_, _, _)
ScaleDown(q, sticky, sh) ==
  IF BigLess(q, Two54) THEN [q2 |-> q, sticky |-> sticky, sh |-> sh]
  ELSE LET d == DivSmall(q, 2)
       IN ScaleDown(d.q, sticky \/ d.r # 0, sh - 1)

Float64(N, ten) ==
  IF N = <<0>> THEN [m |-> <<0>>, e |-> 0]
  ELSE LET d == DivSmall(N, ten)
           s == IF BigLess(d.q, Two53) THEN ScaleUp(N, ten, 0)
                ELSE ScaleDown(d.q, d.r # 0, 0)
           h == DivSmall(s.q2, 2)
           up == h.r = 1 /\ (s.sticky \/ h.q[Len(h.q)] % 2 = 1)
       IN [m |-> IF up THEN AddSmall(h.q, 1) ELSE h.q, e |-> 1 - s.sh]

\* float64 to integer, towards zero.
Trunc(f) == IF f.e >= 0 THEN Shl(f.m, f.e) ELSE Shr(f.m, 0 - f.e, FALSE).q

\* a + b.
RECURSIVE AddCarry(_, _, _)
AddCarry(a, b, carry) ==
  IF a = <<>> /\ b = <<>> THEN <<carry>>
  ELSE LET x == IF a = <<>> THEN 0 ELSE a[Len(a)]
           y == IF b = <<>> THEN 0 ELSE b[Len(b)]
           v == x + y + carry
       IN Append(AddCarry(SubSeq(a, 1, Len(a) - 1), SubSeq(b, 1, Len(b) - 1),
                          v \div 10), v % 10)

BigAdd(a, b) == Strip(AddCarry(a, b, 0))

\* ------------------------------------------------------------------ utils: ParseSize, ParseDuration

DigitChars == <<"0", "1", "2", "3", "4", "5", "6", "7", "8", "9">>

LowerChars ==
  <<"a", "b", "c", "d", "e", "f", "g", "h", "i", "j", "k", "l", "m",
    "n", "o", "p", "q", "r", "s", "t", "u", "v", "w", "x", "y", "z">>

UpperChars ==
  <<"A", "B", "C", "D", "E", "F", "G", "H", "I", "J", "K", "L", "M",
    "N", "O", "P", "Q", "R", "S", "T", "U", "V", "W", "X", "Y", "Z">>

IsDigit(c) == \E d \in 1..10 : DigitChars[d] = c

DigitVal(c) == (CHOOSE d \in 1..10 : DigitChars[d] = c) - 1

IsLower(c) == \E k \in 1..26 : LowerChars[k] = c

IsSpace(c) == c \in {" ", "\t", "\n"}

\* strings.ToUpper and strings.ToLower on ASCII.
ToUpper(s) ==
  [i \in 1..Len(s) |->
     IF IsLower(s[i]) THEN UpperChars[CHOOSE k \in 1..26 : LowerChars[k] = s[i]]
     ELSE s[i]]

ToLower(s) ==
  [i \in 1..Len(s) |->
     IF \E k \in 1..26 : UpperChars[k] = s[i]
     THEN LowerChars[CHOOSE k \in 1..26 : UpperChars[k] = s[i]]
     ELSE s[i]]

\* strings.TrimSpace.
RECURSIVE TrimLeft(_)
TrimLeft(s) == IF s # <<>> /\ IsSpace(Head(s)) THEN TrimLeft(Tail(s)) ELSE s

RECURSIVE TrimRight(_)
TrimRight(s) ==
  IF s # <<>> /\ IsSpace(s[Len(s)]) THEN TrimRight(SubSeq(s, 1, Len(s) - 1))
  ELSE s

TrimSpace(s) == TrimRight(TrimLeft(s))

\* The length of the longest prefix of digits.
RECURSIVE DigitSpan(_)
DigitSpan(s) ==
  IF s # <<>> /\ IsDigit(Head(s)) THEN 1 + DigitSpan(Tail(s)) ELSE 0

Drop(s, n) == SubSeq(s, n + 1, Len(s))

\* The head of both regular expressions, `^(\d+(?:\.\d+)?)\s*`: the digits of
\* the number before and after the point, and what follows the white space.
NumberUnit(s) ==
  LET n1 == DigitSpan(s)
      a == Drop(s, n1)
      n2 == IF a # <<>> /\ Head(a) = "." THEN DigitSpan(Tail(a)) ELSE 0
      b == IF n2 > 0 THEN Drop(a, n2 + 1) ELSE a
  IN [ok |-> n1 > 0, int |-> SubSeq(s, 1, n1),
      frac |-> IF n2 > 0 THEN SubSeq(a, 2, n2 + 1) ELSE <<>>,
      rest |-> TrimLeft(b)]

\* The digits of a string of digits, as a number.
Number(digits) == Strip(<<0>> \o [i \in 1..Len(digits) |-> DigitVal(digits[i])])

\* strconv.ParseFloat(numStr, 64) of the number int.frac.
ParseFloat(int, frac) == Float64(Number(int \o frac), 10^Len(frac))

\* What a parser returns: the error, and the value by sign and magnitude.
Failed(e) == [err |-> e, neg |-> FALSE, val |-> <<0>>]

Value(neg, val) == [err |-> Nil, neg |-> neg, val |-> val]

\* b - 1, for b above zero.
RECURSIVE Dec(_)
Dec(b) ==
  IF b[Len(b)] > 0 THEN Strip([b EXCEPT ![Len(b)] = b[Len(b)] - 1])
  ELSE Strip(Append(Dec(SubSeq(b, 1, Len(b) - 1)), 9))

\* int64(f) of a float64 that is not negative. Go leaves the result to the
\* implementation when the value is not representable: amd64 gives the
\* least int64, arm64 the greatest.
Int64(t) ==
  IF BigLess(t, Two63) THEN {Value(FALSE, t)}
  ELSE {Value(TRUE, Two63), Value(FALSE, Dec(Two63))}

\* ParseSize, the regular expression's `([KMGT]?B?)?$`.
SizeUnits ==
  {<<>>, <<"B">>, <<"K">>, <<"M">>, <<"G">>, <<"T">>, <<"K", "B">>,
   <<"M", "B">>, <<"G", "B">>, <<"T", "B">>}

\* ParseSize, lines 124-137: the multiplier 1024^k of the unit, as the
\* exponent of two.
Multiplier(unit) ==
  CASE unit \in {<<"K">>, <<"K", "B">>} -> 10
    [] unit \in {<<"M">>, <<"M", "B">>} -> 20
    [] unit \in {<<"G">>, <<"G", "B">>} -> 30
    [] unit \in {<<"T">>, <<"T", "B">>} -> 40
    [] OTHER -> 0

\* ParseSize: the results the builds of the program can return for s.
ParseSize(s) ==
  LET t == TrimSpace(ToUpper(s))
      nu == NumberUnit(t)
  IN IF t = <<>> THEN {Failed("empty size string")}
     ELSE IF ~nu.ok \/ nu.rest \notin SizeUnits
          THEN {Failed("invalid size format")}
     ELSE LET num == ParseFloat(nu.int, nu.frac)
          IN Int64(Trunc([m |-> num.m, e |-> num.e + Multiplier(nu.rest)]))

\* ParseDuration, lines 193-210: the unit in seconds, 0 for an unknown unit
\* (time.Second is 10^9 nanoseconds).
UnitSeconds(unit) ==
  CASE unit \in {<<"s">>, <<"s", "e", "c">>,
                 <<"s", "e", "c", "o", "n", "d">>,
                 <<"s", "e", "c", "o", "n", "d", "s">>} -> 1
    [] unit \in {<<"m">>, <<"m", "i", "n">>,
                 <<"m", "i", "n", "u", "t", "e">>,
                 <<"m", "i", "n", "u", "t", "e", "s">>} -> 60
    [] unit \in {<<"h">>, <<"h", "r">>, <<"h", "o", "u", "r">>,
                 <<"h", "o", "u", "r", "s">>} -> 60 * 60
    [] unit \in {<<"d">>, <<"d", "a", "y">>, <<"d", "a", "y", "s">>}
         -> 24 * 60 * 60
    [] unit \in {<<"w">>, <<"w", "e", "e", "k">>, <<"w", "e", "e", "k", "s">>}
         -> 7 * 24 * 60 * 60
    [] unit \in {<<"m", "o">>, <<"m", "o", "n", "t", "h">>,
                 <<"m", "o", "n", "t", "h", "s">>} -> 30 * 24 * 60 * 60
    [] unit \in {<<"y">>, <<"y", "e", "a", "r">>, <<"y", "e", "a", "r", "s">>}
         -> 365 * 24 * 60 * 60
    [] OTHER -> 0

\* time.ParseDuration's units, each as <<c, z>> for c * 10^z nanoseconds.
StdUnit(u) ==
  CASE u = <<"n", "s">> -> <<1, 0>>
    [] u = <<"u", "s">> -> <<1, 3>>
    [] u = <<"m", "s">> -> <<1, 6>>
    [] u = <<"s">> -> <<1, 9>>
    [] u = <<"m">> -> <<6, 10>>
    [] u = <<"h">> -> <<36, 11>>
    [] OTHER -> <<0, 0>>

\* The length of the unit of a group: up to the next point or digit.
RECURSIVE UnitSpan(_)
UnitSpan(s) ==
  IF s # <<>> /\ Head(s) # "." /\ ~IsDigit(Head(s)) THEN 1 + UnitSpan(Tail(s))
  ELSE 0

\* time.ParseDuration, the loop over the groups `[0-9]*(\.[0-9]*)?[a-z]+`:
\* the sum in nanoseconds, or <<>> for an error. The part after the point
\* is computed exactly, as the library does for up to three digits.
RECURSIVE StdGroups(_, _)
StdGroups(s, d) ==
  IF s = <<>> THEN <<d>>
  ELSE IF ~(Head(s) = "." \/ IsDigit(Head(s))) THEN <<>>
  ELSE LET n1 == DigitSpan(s)
           a == Drop(s, n1)
           dot == a # <<>> /\ Head(a) = "."
           n2 == IF dot THEN DigitSpan(Tail(a)) ELSE 0
           b == IF dot THEN Drop(a, n2 + 1) ELSE a
           ulen == UnitSpan(b)
           unit == StdUnit(SubSeq(b, 1, ulen))
           whole == Shl10(MulSmall(Number(SubSeq(s, 1, n1)), unit[1]), unit[2])
           part == DivSmall(Shl10(MulSmall(Number(SubSeq(a, 2, n2 + 1)), unit[1]),
                                  unit[2]), 10^n2).q
           v == BigAdd(whole, part)
           sum == BigAdd(d, v)
       IN IF (n1 = 0 /\ n2 = 0) \/ ulen = 0 \/ unit[1] = 0 THEN <<>>
          ELSE IF BigLess(Two63, v) \/ BigLess(Two63, sum) THEN <<>>
          ELSE StdGroups(Drop(b, ulen), sum)

\* time.ParseDuration(s), the library's parser that ParseDuration falls
\* back to: `[-+]?([0-9]*(\.[0-9]*)?[a-z]+)+`, or "0".
StdParseDuration(s) ==
  LET signed == s # <<>> /\ Head(s) \in {"-", "+"}
      neg == signed /\ Head(s) = "-"
      t == IF signed THEN Tail(s) ELSE s
      g == StdGroups(t, <<0>>)
  IN IF t = <<"0">> THEN Value(FALSE, <<0>>)
     ELSE IF t = <<>> \/ g = <<>> THEN Failed("time: invalid duration")
     ELSE IF ~neg /\ ~BigLess(g[1], Two63) THEN Failed("time: invalid duration")
     ELSE Value(neg /\ g[1] # <<0>>, g[1])

\* ParseDuration: the results the builds of the program can return for s.
ParseDuration(s) ==
  LET t == TrimSpace(ToLower(s))
      nu == NumberUnit(t)
      matched == nu.ok /\ nu.rest # <<>>
                   /\ \A i \in 1..Len(nu.rest) : IsLower(nu.rest[i])
  IN IF t = <<>> THEN {Failed("empty duration string")}
     ELSE IF ~matched THEN {StdParseDuration(t)}
     ELSE IF UnitSeconds(nu.rest) = 0 THEN {Failed("unknown time unit")}
     ELSE LET num == ParseFloat(nu.int, nu.frac)
              prod == Float64(Shl10(MulSmall(num.m, UnitSeconds(nu.rest)), 9), 1)
          IN Int64(Trunc([m |-> prod.m, e |-> prod.e + num.e]))

\* The decimal numbers of the inputs, each by its digits before and after
\* the point: small ones, fractions, and numbers at the edges of float64
\* and of int64.
Decimals ==
  {<<<<"0">>, <<>>>>, <<<<"1">>, <<>>>>, <<<<"1", "0", "0">>, <<>>>>,
   <<<<"0", "0", "7">>, <<>>>>, <<<<"1">>, <<"5">>>>, <<<<"0">>, <<"5">>>>,
   <<<<"2">>, <<"2", "5">>>>, <<<<"1">>, <<"1">>>>, <<<<"0">>, <<"1">>>>,
   <<<<"0">>, <<"3">>>>, <<<<"2">>, <<"5">>>>, <<<<"3", "0">>, <<>>>>,
   <<<<"2", "9", "2">>, <<>>>>, <<<<"2", "9", "3">>, <<>>>>,
   <<<<"1", "0", "6", "7", "5", "1">>, <<>>>>,
   <<<<"1", "0", "6", "7", "5", "2">>, <<>>>>,
   <<<<"8", "3", "8", "8", "6", "0", "7">>, <<>>>>,
   <<<<"8", "3", "8", "8", "6", "0", "8">>, <<>>>>,
   <<<<"9", "9", "9", "9", "9", "9", "9">>, <<>>>>,
   <<<<"9", "0", "0", "7", "1", "9", "9", "2", "5", "4", "7", "4", "0", "9", "9", "3">>, <<>>>>,
   <<<<"1", "2", "8">>, <<"0", "0", "8">>>>}

\* A decimal number as it is written.
Numeral(d) == IF d[2] = <<>> THEN d[1] ELSE d[1] \o <<".">> \o d[2]

\* What is written in the place of the number and is not one.
NotDecimals ==
  {<<>>, <<"1", ".">>, <<".", "5">>, <<"-", "1">>, <<"+", "1">>,
   <<"1", "e", "3">>, <<"1", ",", "5">>, <<"x">>,
   <<"i", "n", "v", "a", "l", "i", "d">>}

\* The units of ParseSize, in either case.
SizeSuffixes ==
  {<<>>, <<"B">>, <<"K">>, <<"K", "B">>, <<"M">>, <<"M", "B">>, <<"G">>,
   <<"G", "B">>, <<"T">>, <<"T", "B">>, <<"b">>, <<"k">>, <<"k", "b">>,
   <<"K", "b">>, <<"m">>, <<"m", "B">>, <<"g">>, <<"g", "b">>, <<"t">>,
   <<"t", "b">>}

\* The short units of ParseDuration.
DurationSuffixes ==
  {<<"s">>, <<"m">>, <<"h">>, <<"d">>, <<"w">>, <<"m", "o">>, <<"y">>}

\* Longer and upper-case spellings of the units of ParseDuration.
LongSuffixes ==
  {<<"s", "e", "c">>, <<"m", "i", "n">>, <<"h", "r">>,
   <<"h", "o", "u", "r", "s">>, <<"d", "a", "y">>, <<"d", "a", "y", "s">>,
   <<"w", "e", "e", "k", "s">>, <<"m", "o", "n", "t", "h", "s">>,
   <<"y", "e", "a", "r">>, <<"H">>, <<"M", "O">>}

\* What is written in the place of the unit and is none.
UnknownSuffixes ==
  {<<"X">>, <<"B", "B">>, <<"K", "I", "B">>, <<"K", "K">>, <<"P">>,
   <<"m", "s">>, <<"u", "s">>, <<"n", "s">>, <<"m", "o", "n">>,
   <<"y", "y">>, <<"x">>, <<"h", "h">>}

\* Inputs of other shapes, for time.ParseDuration.
OtherInputs ==
  {<<"1", "h", "3", "0", "m">>, <<"-", "1", "h">>, <<"+", "2", "m">>,
   <<".", "5", "h">>, <<"1", ".", "h">>, <<"0">>,
   <<"1", ".", "5", "h", "3", "0", "m">>, <<"h">>, <<"-">>,
   <<"1", "h", " ", "3", "0", "m">>}

\* The strings handed to the parsers: a number or what stands for one, a
\* unit or what stands for one, with or without white space between them
\* and around them.
ParseInputs ==
  {pad[1] \o n \o gap \o u \o pad[2] :
     n \in {Numeral(d) : d \in Decimals} \cup NotDecimals,
     u \in SizeSuffixes \cup DurationSuffixes \cup LongSuffixes
            \cup UnknownSuffixes,
     gap \in {<<>>, <<" ">>},
     pad \in {<< <<>>, <<>> >>, << <<" ">>, <<>> >>, << <<>>, <<" ">> >>}}
    \cup OtherInputs

\* ParseSize(input) is called and returns.
ParseSizeCall ==
  /\ parsed = None
  /\ \E r \in ParseSize(input) : parsed' = Some([fn |-> "ParseSize", r |-> r])
  /\ UNCHANGED <<fs, trashFiles, meta, now, faults, deleterVars, proc, disp,
                 cbLog, stageCalls, ops, hist, managerVars, cliVars, shr,
                 sysLog, input, sigChan, done, cd>>

\* ParseDuration(input) is called and returns.
ParseDurationCall ==
  /\ parsed = None
  /\ \E r \in ParseDuration(input) :
       parsed' = Some([fn |-> "ParseDuration", r |-> r])
  /\ UNCHANGED <<fs, trashFiles, meta, now, faults, deleterVars, proc, disp,
                 cbLog, stageCalls, ops, hist, managerVars, cliVars, shr,
                 sysLog, input, sigChan, done, cd>>

InitParse ==
  /\ input \in ParseInputs
  /\ parsed = None
  /\ shr = IdleShred
  /\ sysLog = <<>>
  /\ sigChan = <<>>
  /\ done = <<>>
  /\ cd = IdleCountdown
  /\ fs = InitialFS
  /\ trashFiles = <<>>
  /\ meta = <<>>
  /\ now = 1
  /\ faults = 0
  /\ regularFiles = <<>>
  /\ directories = <<>>
  /\ workChan = <<>>
  /\ chanClosed = FALSE
  /\ stageCalls = 0
  /\ ops = 0
  /\ hist = <<>>
  /\ trashDirs = AllDirs
  /\ listed = NoListing
  /\ ac = NoCleanup
  /\ errors = <<>>
  /\ errMu = None
  /\ cfg = [workers |-> 1, shred |-> FALSE, trash |-> TRUE, callback |-> TRUE,
            entry |-> "Delete", xdev |-> FALSE]
  /\ files = <<>>
  /\ scanOpts = None
  /\ flags = NoFlags
  /\ proc = [q \in Procs |-> IdleFrame("none")]
  /\ disp = <<>>
  /\ cbLog = <<>>

NextParse ==
  \/ ParseSizeCall
  \/ ParseDurationCall

SpecParse == InitParse /\ [][NextParse]_vars

\* ------------------------------------------------------------------ properties of Delete

IsDone(i) == disp[i] \in {"ok", "err"}

FileIndices == {i \in 1..Len(files) : ~files[i].IsDir}

DirIndices == {i \in 1..Len(files) : files[i].IsDir}

\* C1: in a run of Delete, from the moment the disposition of any directory
\* candidate has begun, every regular-file candidate has finished its
\* disposition and its progress callback has returned, under every
\* interleaving of the workers.
C1_DirectoriesAfterAllFiles ==
  (cfg.entry = "Delete" /\ \E d \in DirIndices : disp[d] # "todo") =>
    /\ \A i \in FileIndices : IsDone(i) /\ (cfg.callback => Len(cbLog[i]) = 1)
    /\ \A w \in Workers : proc[w].pc \in {"none", "exit"}

\* C1 witness: two workers, at least two files that are disposed of, and a
\* directory whose disposition is under way.
C1_Witness ==
  /\ cfg.entry = "Delete"
  /\ cfg.workers = 2
  /\ cfg.callback
  /\ Cardinality(FileIndices) >= 2
  /\ \E d \in DirIndices : disp[d] = "run"

\* C2: for any candidate list in any order, when the disposition of a
\* directory D has begun, every candidate whose path lies under D has been
\* processed.
C2_ChildrenBeforeParent ==
  cfg.entry = "Delete" =>
    \A d \in DirIndices : \A x \in 1..Len(files) :
      (IsUnder(files[x].Path, files[d].Path) /\ disp[d] # "todo") => IsDone(x)

\* C2 witness: a hand-made list that names a directory before a directory
\* below it, the upper one being disposed of.
C2_Witness ==
  /\ cfg.entry = "Delete"
  /\ scanOpts = None
  /\ \E d, x \in DirIndices :
       /\ d < x
       /\ IsUnder(files[x].Path, files[d].Path)
       /\ disp[d] = "run"

\* C3: after a recursive soft-delete run with a trash manager and a size
\* filter or an exclude pattern, in which no filesystem call failed, every
\* file of the scanned tree that the filter rejects is still at its path,
\* unchanged.
C3_RejectedFilesRemain ==
  (/\ proc[Caller].pc = "done"
   /\ scanOpts # None
   /\ scanOpts[1] # None
   /\ cfg.trash
   /\ ~cfg.shred
   /\ faults = 0) =>
    \A p \in DOMAIN InitialFS :
      (~InitialFS[p].isDir /\ ~Match(scanOpts[1], p, InitialFS[p])) =>
        p \in DOMAIN fs /\ fs[p] = InitialFS[p]

\* C4: with --shred, Delete and DeleteSingle never call MoveToTrash, for a
\* file or for a directory, also when a trash manager is configured, and
\* the trash holds no record and no staged data.
C4_ShredNeverStages ==
  cfg.shred => stageCalls = 0 /\ meta = <<>> /\ trashFiles = <<>>

\* C4 witness: a finished shred run with a trash manager configured, in
\* which a file and a directory were removed.
C4_Witness ==
  /\ cfg.shred
  /\ cfg.trash
  /\ proc[Caller].pc = "done"
  /\ \E i \in FileIndices : disp[i] = "ok"
  /\ \E d \in DirIndices : disp[d] = "ok"

\* C5: Delete, given a callback, invokes it once for each element of the
\* candidate list, with that element's path, never more than once, and has
\* made all these invocations when it returns.
C5_OneCallbackPerCandidate ==
  (cfg.entry = "Delete" /\ cfg.callback) =>
    /\ \A i \in 1..Len(files) :
         /\ Len(cbLog[i]) <= 1
         /\ Len(cbLog[i]) = 1 => cbLog[i][1].path = files[i].Path
    /\ proc[Caller].pc = "done" => \A i \in 1..Len(files) : Len(cbLog[i]) = 1

\* C5 witness: Delete has returned from a list of files and directories,
\* each of them disposed of.
C5_Witness ==
  /\ cfg.entry = "Delete"
  /\ cfg.callback
  /\ proc[Caller].pc = "done"
  /\ FileIndices # {}
  /\ DirIndices # {}
  /\ \A i \in 1..Len(files) : disp[i] = "ok"

\* C6: when the disposition of a candidate fails, the error is reported in
\* the callback of that candidate, and every other candidate is still
\* processed and reported with its own result: no worker stops and the
\* directories are not skipped.
C6_FailureIsolated ==
  (cfg.entry = "Delete" /\ proc[Caller].pc = "done") =>
    \A i \in 1..Len(files) :
      /\ IsDone(i)
      /\ cfg.callback =>
           /\ Len(cbLog[i]) = 1
           /\ (cbLog[i][1].err # Nil) = (disp[i] = "err")

\* C6 witness: Delete has returned, one filesystem call failed, a file has
\* failed and a file and a directory after it have succeeded.
C6_Witness ==
  /\ cfg.entry = "Delete"
  /\ cfg.callback
  /\ proc[Caller].pc = "done"
  /\ faults = 1
  /\ \E i, j \in FileIndices : i < j /\ disp[i] = "err" /\ disp[j] = "ok"
  /\ \E d \in DirIndices : disp[d] = "ok"

\* The candidates are regular files of pairwise different paths.
DistinctFiles ==
  /\ DirIndices = {}
  /\ \A i, j \in 1..Len(files) : files[i].Path = files[j].Path => i = j

\* C7: after Delete in soft-delete mode with a trash manager over N regular
\* files, no filesystem call having failed, the trash holds N metadata
\* records, one per file, each with its staged data, whatever the
\* interleaving and also when files share a base name.
C7_EveryFileStaged ==
  (/\ cfg.entry = "Delete"
   /\ proc[Caller].pc = "done"
   /\ cfg.workers > 1
   /\ cfg.trash
   /\ ~cfg.shred
   /\ faults = 0
   /\ DistinctFiles) =>
    /\ Cardinality(DOMAIN meta) = Len(files)
    /\ \A i \in 1..Len(files) :
         \E n \in DOMAIN meta :
           /\ meta[n].OriginalPath = files[i].Path
           /\ StagedName(meta[n]) \in DOMAIN trashFiles

\* C8: no MoveToTrash takes the staged name of a live entry: a metadata
\* record is never replaced by the record of another original path, and
\* the staged data under a name is never replaced.
C8_StagedNamesNeverReused ==
  [][/\ \A n \in (DOMAIN meta) \cap (DOMAIN meta') :
          meta'[n].OriginalPath = meta[n].OriginalPath
     /\ \A n \in (DOMAIN trashFiles) \cap (DOMAIN trashFiles') :
          trashFiles'[n] = trashFiles[n]]_vars

\* ------------------------------------------------------------------ properties of the trash manager

\* The client's last two calls were MoveToTrash(p) and then
\* Restore(filepath.Base(p)), and both returned nil.
StagedThenRestored ==
  /\ Len(hist) = 2
  /\ hist[1].op = "restore"
  /\ hist[1].done
  /\ hist[1].err = Nil
  /\ hist[2].op = "stage"
  /\ hist[2].err = Nil
  /\ hist[1].arg = Base(hist[2].arg)

\* The content of p is what it was before the stage, and List has no
\* entry for p.
RoundTripHolds ==
  /\ Subtree(fs, hist[2].arg) = Subtree(hist[2].fs, hist[2].arg)
  /\ \A k \in 1..Len(List) : List[k].OriginalPath # hist[2].arg

CleanRoundTrip ==
  /\ \A n \in DOMAIN hist[2].meta : ~Matches(hist[2].meta[n], hist[1].arg)
  /\ \A t \in DOMAIN hist[2].trashFiles :
       \E n \in DOMAIN hist[2].meta : StagedName(hist[2].meta[n]) = t
  /\ faults = hist[2].faults

StageReturns ==
  /\ proc[Caller].pc = "ret"
  /\ hist # <<>>
  /\ hist[1].op = "stage"

\* When the metadata write fails, the move is not undone; and a record is
\* written only by a call whose move succeeded: the staged data is there
\* and the original is gone.
MetadataAfterMove ==
  /\ proc[Caller].err = ErrSaveMetadata =>
       /\ meta = hist[1].meta
       /\ proc[Caller].name \in DOMAIN trashFiles
       /\ proc[Caller].path \notin DOMAIN fs
  /\ meta # hist[1].meta =>
       /\ proc[Caller].err = Nil
       /\ DOMAIN meta = (DOMAIN hist[1].meta) \cup {MetaName(proc[Caller].name)}
       /\ proc[Caller].name \in DOMAIN trashFiles
       /\ proc[Caller].path \notin DOMAIN fs

\* C10 as claimed: when the stat or the move fails, no record is created
\* and the trash (staged data and records) is unchanged; when the metadata
\* write fails, the staged data stays and the original is not put back.
C10_FailedStageLeavesTrashUnchanged ==
  StageReturns =>
    /\ proc[Caller].err \in {ErrLstat, ErrMove, ErrRemoveOriginal} =>
         meta = hist[1].meta /\ trashFiles = hist[1].trashFiles
    /\ MetadataAfterMove

\* ------------------------------------------------------------------ properties of Restore

\* A call of Restore is about to return to the client.
RestoreReturns ==
  /\ proc[Caller].pc = "ret"
  /\ hist # <<>>
  /\ hist[1].op = "restore"

\* The records, at the time of the call, whose original path has the base
\* name asked for or contains the string asked for.
Hits ==
  {n \in DOMAIN hist[1].meta :
     \/ Base(hist[1].meta[n].OriginalPath) = hist[1].arg
     \/ Contains(hist[1].meta[n].OriginalPath, hist[1].arg)}

\* The first of these records in the order of the metadata directory.
FirstHit == CHOOSE n \in Hits : \A m \in Hits : m = n \/ StrLess(n, m)

\* No filesystem call has failed since the client's call began.
NoFaultInCall == faults = hist[1].faults

\* The call has changed nothing.
NothingChanged ==
  /\ fs = hist[1].fs
  /\ meta = hist[1].meta
  /\ trashFiles = hist[1].trashFiles

\* The call has changed nothing but the entry of record n: no other record,
\* no other staged body, and in the filesystem only the original path of n
\* and the directories above it.
OnlyEntryChanged(n) ==
  LET e == hist[1].meta[n]
  IN /\ \A m \in DOMAIN hist[1].meta \ {n} : m \in DOMAIN meta
     /\ \A m \in DOMAIN meta : m \in DOMAIN hist[1].meta /\ meta[m] = hist[1].meta[m]
     /\ \A t \in DOMAIN hist[1].trashFiles \ {StagedName(e)} :
          t \in DOMAIN trashFiles /\ trashFiles[t] = hist[1].trashFiles[t]
     /\ DOMAIN trashFiles \subseteq DOMAIN hist[1].trashFiles
     /\ \A x \in DOMAIN hist[1].fs : x \in DOMAIN fs /\ fs[x] = hist[1].fs[x]
     /\ \A x \in DOMAIN fs \ DOMAIN hist[1].fs :
          \/ InTree(x, e.OriginalPath)
          \/ x \in Ancestors(e.OriginalPath)
          \/ x = <<Separator>>

C12_ConflictOrStaleChangesNothing ==
  RestoreReturns =>
    /\ proc[Caller].err \in {ErrStale, ErrConflict} => NothingChanged
    /\ NoFaultInCall /\ Hits # {} =>
         LET e == hist[1].meta[FirstHit]
         IN IF StagedName(e) \notin DOMAIN hist[1].trashFiles
            THEN proc[Caller].err = ErrStale
            ELSE e.OriginalPath \in DOMAIN hist[1].fs =>
                   proc[Caller].err = ErrConflict

\* C12 witness: Restore returns the conflict error, a file having been
\* written at the original location of the staged one.
C12_Witness ==
  /\ RestoreReturns
  /\ proc[Caller].err = ErrConflict
  /\ Hits # {}
  /\ StagedName(hist[1].meta[FirstHit]) \in DOMAIN trashFiles

\* C13: Restore removes a metadata record only when the staged data is back
\* at the original path; when the move fails, records and staged data are
\* as they were and the entry is still listed.
C13_RecordRemovedAfterMoveBack ==
  RestoreReturns =>
    /\ proc[Caller].err = ErrRestore =>
         /\ meta = hist[1].meta
         /\ trashFiles = hist[1].trashFiles
         /\ \E n \in Hits : \E k \in 1..Len(List) :
              List[k].TrashPath = meta[n].TrashPath
    /\ \A n \in DOMAIN hist[1].meta \ DOMAIN meta :
         LET e == hist[1].meta[n]
         IN /\ proc[Caller].err = Nil
            /\ e.OriginalPath \in DOMAIN fs
            /\ Subtree(fs, e.OriginalPath) = hist[1].trashFiles[StagedName(e)]

\* C13 witness: the move back has failed and Restore returns its error.
C13_Witness ==
  /\ RestoreReturns
  /\ proc[Caller].err = ErrRestore
  /\ meta # <<>>

\* ------------------------------------------------------------------ properties of List, AutoCleanup, Empty

\* The client's last call was List and nothing has been called since.
ListReturned == hist # <<>> /\ hist[1].op = "list"

\* The bytes of the files in the staged tree `body`, the files in S.
RECURSIVE FileBytes(_, _)
FileBytes(body, S) ==
  IF S = {} THEN 0
  ELSE LET x == CHOOSE y \in S : TRUE
       IN (IF body[x].isDir THEN 0 ELSE body[x].size) + FileBytes(body, S \ {x})

\* The entry List is to return for record n: the record, with the size of
\* the staged tree when the staged data is a directory.
Expected(n) ==
  LET body == trashFiles[StagedName(meta[n])]
  IN IF body[<<>>].isDir
     THEN [meta[n] EXCEPT !.Size = FileBytes(body, DOMAIN body)]
     ELSE meta[n]

\* The records whose staged data exists.
Live == {n \in DOMAIN meta : StagedName(meta[n]) \in DOMAIN trashFiles}

\* The sum of the sizes of the entries of a listing.
RECURSIVE SumOfSizes(_, _)
SumOfSizes(entries, k) ==
  IF k = 0 THEN 0 ELSE entries[k].Size + SumOfSizes(entries, k - 1)

\* Every entry List returned is the entry of a live record, none twice, the
\* total is the sum of the sizes returned, and nothing in the trash changed.
ListedAreLive ==
  /\ \A k \in 1..Len(listed.entries) :
       \E n \in Live : listed.entries[k] = Expected(n)
  /\ \A j, k \in 1..Len(listed.entries) :
       listed.entries[j].TrashPath = listed.entries[k].TrashPath => j = k
  /\ listed.totalSize = SumOfSizes(listed.entries, Len(listed.entries))
  /\ NothingChanged

\* Every live record is listed.
LiveAreListed ==
  \A n \in Live : \E k \in 1..Len(listed.entries) : listed.entries[k] = Expected(n)

CleanupReturns ==
  /\ proc[Caller].pc = "ret"
  /\ hist # <<>>
  /\ hist[1].op = "cleanup"

\* C15: when AutoCleanup returns and no filesystem call has failed in it,
\* List holds no entry deleted before now - retentionDays, whatever the
\* sizes and the cap.
C15_NoEntryOlderThanRetention ==
  CleanupReturns /\ NoFaultInCall /\ proc[Caller].err = Nil =>
    \A k \in 1..Len(List) : ~(List[k].DeletedAt < now - ac.retentionDays)

\* C15 witness: AutoCleanup has removed an entry for its age and kept a
\* younger one.
C15_Witness ==
  /\ CleanupReturns
  /\ NoFaultInCall
  /\ \E k \in 1..Len(ac.removed) : ac.removed[k].phase = 1
  /\ List # <<>>

\* The entries whose staged data the second pass removed, in the order it
\* removed them.
SecondPass == SelectSeq(ac.removed, LAMBDA r : r.phase = 2 /\ r.dataOK)

\* The sizes of the entries removed in the second pass from the k-th on.
RECURSIVE SizesFrom(_)
SizesFrom(k) ==
  IF k > Len(SecondPass) THEN 0 ELSE SecondPass[k].entry.Size + SizesFrom(k + 1)

\* Every removal of the second pass is made while the size still listed is
\* over the cap (so the pass starts only when the size left by the first
\* pass is over the cap, and stops as soon as it is not), the pass goes on
\* until the size is within the cap or nothing is listed, its removals are
\* in ascending order of deletion time, and nothing it removes is younger
\* than an entry that stays listed.
OldestFirstUntilWithinCap ==
  /\ \A k \in 1..Len(SecondPass) :
       TotalSize(List) + SizesFrom(k) > ac.maxSizeMB * MB
  /\ Len(ac.entries) > 0 =>
       TotalSize(List) <= ac.maxSizeMB * MB \/ List = <<>>
  /\ \A j, k \in 1..Len(SecondPass) :
       j < k => SecondPass[j].entry.DeletedAt <= SecondPass[k].entry.DeletedAt
  /\ \A k \in 1..Len(SecondPass) : \A l \in 1..Len(List) :
       SecondPass[k].entry.DeletedAt <= List[l].DeletedAt

RECURSIVE RemovedSizes(_)
RemovedSizes(k) ==
  IF k = 0 THEN 0
  ELSE (IF ac.removed[k].dataOK THEN ac.removed[k].entry.Size ELSE 0)
       + RemovedSizes(k - 1)

\* AutoCleanup's counts are right: itemsRemoved is the number of entries
\* whose staged data is gone and bytesFreed the sum of their sizes.
CountsAreRight ==
  /\ ac.itemsRemoved =
       Cardinality(DOMAIN hist[1].trashFiles \ DOMAIN trashFiles)
  /\ ac.bytesFreed = RemovedSizes(Len(ac.removed))

\* The counts agree with List: itemsRemoved records are gone, and the size
\* listed before the call less bytesFreed is the size listed after it.
CountsAgreeWithList ==
  /\ ac.itemsRemoved = Cardinality(DOMAIN hist[1].meta \ DOMAIN meta)
  /\ ac.totalSize - ac.bytesFreed = TotalSize(List)

\* The trash held two entries at the call, one older than the cutoff and
\* one not, and the cap is 0.
OneOldOneNew ==
  /\ Len(ac.entries) = 2
  /\ ac.maxSizeMB = 0
  /\ \E i, j \in 1..2 :
       /\ ac.entries[i].DeletedAt < now - ac.retentionDays
       /\ ~(ac.entries[j].DeletedAt < now - ac.retentionDays)

\* The newer of the two entries.
Newer ==
  IF ac.entries[1].DeletedAt < now - ac.retentionDays
  THEN ac.entries[2] ELSE ac.entries[1]

C18_RecordRemovedOnlyWithData ==
  CleanupReturns =>
    \A n \in DOMAIN hist[1].meta \ DOMAIN meta :
      StagedName(hist[1].meta[n]) \notin DOMAIN trashFiles

\* A call of Empty is about to return to the client.
EmptyReturns ==
  /\ proc[Caller].pc = "ret"
  /\ hist # <<>>
  /\ hist[1].op = "empty"

\* C19: a call of Empty in which no filesystem call fails returns no error
\* and leaves both directories of the trash present and empty, with nothing
\* listed; so it is after a first call and after a second call in a row.
C19_EmptyIsIdempotent ==
  EmptyReturns /\ NoFaultInCall =>
    /\ proc[Caller].err = Nil
    /\ trashDirs = AllDirs
    /\ trashFiles = <<>>
    /\ meta = <<>>
    /\ List = <<>>

\* C19 witness: the second of two calls of Empty in a row returns, the
\* first having emptied a trash that held an entry.
C19_Witness ==
  /\ EmptyReturns
  /\ NoFaultInCall
  /\ Len(hist) = 2
  /\ hist[2].op = "empty"
  /\ hist[2].err = Nil
  /\ hist[2].meta # <<>>
  /\ hist[1].meta = <<>>

\* ------------------------------------------------------------------ properties of Scan

\* The number of separators in a path.
Depth(p) == Len(SelectSeq(p, LAMBDA c : c = Separator))

\* C20: in the result of a recursive Scan every entry comes before each of
\* the directories above it, and the depths of the paths never increase
\* along the list.
C20_DeepestFirst ==
  proc[Caller].pc = "scanned" =>
    /\ \A i, j \in 1..Len(files) :
         IsUnder(files[i].Path, files[j].Path) => i < j
    /\ \A i, j \in 1..Len(files) :
         i < j => Depth(files[i].Path) >= Depth(files[j].Path)

\* C20 witness: a scan that returned a file, the directory it is in and the
\* directory above that one.
C20_Witness ==
  /\ proc[Caller].pc = "scanned"
  /\ \E i, j, k \in 1..Len(files) :
       /\ files[i].Path = PathDA
       /\ files[j].Path = PathD
       /\ files[k].Path = Root

\* scanTargets has scanned the one target of the command line, which is
\* not protected.
Scanned ==
  /\ proc[Caller].pc = "scanned"
  /\ Len(flags.targets) = 1
  /\ ~IsProtected(flags.targets[1])

\* The target of the scan.
Target == flags.targets[1]

\* The scan walked a directory.
Walked == Scanned /\ Target \in DOMAIN fs /\ fs[Target].isDir /\ flags.recursive

\* The paths of the result.
ScannedPaths == {files[k].Path : k \in 1..Len(files)}

\* C21 as claimed: in the result of a recursive Scan, entries of equal
\* depth are in descending lexicographic order of their paths.
C21_EqualDepthDescending ==
  Walked =>
    \A i, j \in 1..Len(files) :
      i < j /\ Depth(files[i].Path) = Depth(files[j].Path) =>
        StrLess(files[j].Path, files[i].Path)

\* C21 amended: in the result of a recursive Scan, entries of equal depth
\* are in ascending lexicographic (byte) order of their paths.
C21_EqualDepthAscending ==
  Walked =>
    \A i, j \in 1..Len(files) :
      i < j /\ Depth(files[i].Path) = Depth(files[j].Path) =>
        StrLess(files[i].Path, files[j].Path)

\* C21 witness: a recursive scan returned two entries of the same depth.
C21_Witness ==
  /\ Walked
  /\ PathA \in ScannedPaths
  /\ PathB \in ScannedPaths

\* The filter of the run admits the entry at p.
Admitted(p) == Match(scanOpts[1], p, fs[p])

\* The directory at u has no read permission.
CannotRead(u) == fs[u].isDir /\ fs[u].mode = "---"

\* The walk reaches p: neither p nor a directory above it in the scanned
\* subtree is a directory that cannot be read.
Reached(p) ==
  \A u \in SubtreePaths(fs, Target) : InTree(p, u) => ~CannotRead(u)

\* C22: a recursive Scan of a directory returns, once each, exactly the
\* entries of the subtree (the root included) that the filter admits and
\* the walk reaches, whether or not the directories above them are admitted;
\* a Scan without recursion, and a Scan of a regular file, returns the
\* target alone if the filter admits it and nothing otherwise.
C22_ScanReturnsTheAdmitted ==
  Scanned /\ Target \in DOMAIN fs =>
    /\ \A k \in 1..Len(files) : files[k] = FileInfo(files[k].Path, fs[files[k].Path])
    /\ Len(files) = Cardinality(ScannedPaths)
    /\ IF Walked
       THEN ScannedPaths = {p \in SubtreePaths(fs, Target) : Admitted(p) /\ Reached(p)}
       ELSE ScannedPaths = {p \in {Target} : Admitted(p)}

\* C22 witness: a recursive scan left out a directory the filter rejects
\* and returned a file inside it.
C22_Witness ==
  /\ Walked
  /\ PathD \in SubtreePaths(fs, Target)
  /\ ~Admitted(PathD)
  /\ PathDA \in ScannedPaths

\* C23: Scan of a target that cannot be statted returns an error and no
\* candidate; a Scan whose target can be statted returns no error, and in a
\* recursive one a directory below the target that cannot be read hides
\* what is inside it and nothing else: every other admitted entry is
\* returned.
C23_ErrorOnlyForTheRoot ==
  Scanned =>
    IF Target \notin DOMAIN fs
    THEN proc[Caller].err = ErrLstat /\ files = <<>>
    ELSE /\ proc[Caller].err = Nil
         /\ Walked =>
              \A u \in Children(fs, Target) :
                CannotRead(u) =>
                  /\ \A p \in ScannedPaths : ~IsUnder(p, u)
                  /\ \A p \in SubtreePaths(fs, Target) :
                       Admitted(p) /\ ~InTree(p, u) => p \in ScannedPaths

\* C23 witness: a recursive scan met a directory it could not read, with
\* an entry inside, and returned other entries without error.
C23_Witness ==
  /\ Walked
  /\ proc[Caller].err = Nil
  /\ \E u \in Children(fs, Target) :
       CannotRead(u) /\ Children(fs, u) # {}
  /\ files # <<>>

\* The criteria of the run: nil (None) or a pointer to the Options.
Crit == scanOpts[1]

\* The entries the scan gives to the filter.
Entries ==
  IF Walked THEN {p \in SubtreePaths(fs, Target) : Reached(p)} ELSE {Target}

\* The checks of the criteria on the entry at p, one by one: hidden,
\* older-than, newer-than, size, include, exclude, regular expression. A
\* check that is not configured passes.
Checks(p) ==
  << ~(Crit[1].SkipHidden /\ Base(p)[1] = "."),
     Crit[1].OlderThan = None \/ fs[p].modTime <= Crit[1].OlderThan[1],
     Crit[1].NewerThan = None \/ fs[p].modTime >= Crit[1].NewerThan[1],
     \/ Crit[1].SizeFilter = 0
     \/ fs[p].isDir
     \/ Crit[1].SizeOp = <<"+">> /\ fs[p].size > Crit[1].SizeFilter
     \/ Crit[1].SizeOp = <<"-">> /\ fs[p].size < Crit[1].SizeFilter,
     \/ Crit[1].Include = <<>>
     \/ \E i \in 1..Len(Crit[1].Include) :
          GlobMatch(Crit[1].Include[i], Base(p)) \/ GlobMatch(Crit[1].Include[i], p),
     ~\E i \in 1..Len(Crit[1].Exclude) :
        GlobMatch(Crit[1].Exclude[i], Base(p)) \/ GlobMatch(Crit[1].Exclude[i], p),
     \/ Crit[1].Regex = None
     \/ Contains(p, Crit[1].Regex[1])
     \/ Contains(Base(p), Crit[1].Regex[1]) >>

\* The checks c made in the order pi, stopping at the first that fails.
RECURSIVE EvalInOrder(_, _, _)
EvalInOrder(c, pi, k) ==
  IF k > Len(c) THEN TRUE
  ELSE IF ~c[pi[k]] THEN FALSE
  ELSE EvalInOrder(c, pi, k + 1)

\* The orders in which seven checks can be made.
Orders == Permutations(1..7)

\* Whatever the seven checks give, making them in any order and stopping at
\* the first failure gives their conjunction.
OrderFree ==
  \A c \in [1..7 -> BOOLEAN], pi \in Orders :
    EvalInOrder(c, pi, 1) = \A k \in 1..7 : c[k]

\* C24: the filter admits an entry exactly when every configured check
\* (hidden, older-than, newer-than, size, include, exclude, regular
\* expression) passes on it, which is also the outcome of making the checks
\* in any order and stopping at the first failure; nil criteria and criteria
\* with nothing set admit every entry.
C24_MatchIsConjunction ==
  Scanned /\ Target \in DOMAIN fs =>
    /\ \A p \in Entries :
         LET c == IF Crit = None THEN <<>> ELSE Checks(p)
         IN /\ p \in ScannedPaths <=> \A k \in 1..Len(c) : c[k]
            /\ Crit # None =>
                 /\ c \in [1..7 -> BOOLEAN]
                 /\ (p \in ScannedPaths) = EvalInOrder(c, <<7, 6, 5, 4, 3, 2, 1>>, 1)
    /\ OrderFree
    /\ Crit = None \/ Crit = Some(NoOptions) => ScannedPaths = Entries

\* C24 witness: a recursive scan under criteria with a cutoff, a size
\* filter, include patterns and a regular expression that admitted one
\* entry and rejected another.
C24_Witness ==
  /\ Walked
  /\ Crit # None
  /\ Crit[1].OlderThan # None
  /\ Crit[1].SizeFilter > 0
  /\ Crit[1].Include # <<>>
  /\ Crit[1].Regex # None
  /\ ScannedPaths # {}
  /\ ScannedPaths # Entries

\* The checks other than the k-th pass on the entry at p.
PassBut(p, k) == \A j \in (1..7) \ {k} : Checks(p)[j]

\* The checks other than the size check pass on the entry at p.
OthersPass(p) == PassBut(p, 4)

\* The run has a size filter: --size was given, whatever its threshold.
SizeGiven == Crit # None /\ Crit[1].SizeOp # <<>>

\* C25 as claimed: under a size filter (threshold, "+") with threshold >= 0
\* a regular file of exactly threshold bytes is rejected and one of
\* threshold + 1 bytes is admitted if the other checks admit it; under
\* (threshold, "-") a regular file of exactly threshold bytes is rejected; a
\* directory is admitted or rejected by the other checks alone.
C25_SizeFilterStrict ==
  Scanned /\ Target \in DOMAIN fs /\ SizeGiven =>
    \A p \in Entries :
      IF fs[p].isDir THEN p \in ScannedPaths <=> OthersPass(p)
      ELSE /\ fs[p].size = Crit[1].SizeFilter => p \notin ScannedPaths
           /\ /\ Crit[1].SizeOp = <<"+">>
              /\ fs[p].size = Crit[1].SizeFilter + 1
              /\ OthersPass(p)
              => p \in ScannedPaths

\* The same for the thresholds above zero, where it holds.
C25_StrictAboveZero ==
  Crit # None /\ Crit[1].SizeFilter > 0 => C25_SizeFilterStrict

\* A scan under --size=+1M met a file of 1M, and a scan under one byte less
\* admitted it; a directory went through a size filter.
C25_Witness ==
  /\ Scanned
  /\ SizeGiven
  /\ Crit[1].SizeOp = <<"+">>
  /\ Crit[1].SizeFilter = MB - 1
  /\ PathB \in ScannedPaths
  /\ PathD \in ScannedPaths

\* C26: under a newer-than cutoff T every entry modified before T is
\* rejected whatever the other filters are, and an entry modified exactly at
\* T is admitted when the other checks pass; under an older-than cutoff T
\* every entry modified after T is rejected, and an entry modified exactly
\* at T is admitted when the other checks pass.
C26_CutoffsAreInclusive ==
  Scanned /\ Target \in DOMAIN fs /\ Crit # None =>
    \A p \in Entries :
      /\ Crit[1].NewerThan # None =>
           /\ fs[p].modTime < Crit[1].NewerThan[1] => p \notin ScannedPaths
           /\ fs[p].modTime = Crit[1].NewerThan[1] /\ PassBut(p, 3)
              => p \in ScannedPaths
      /\ Crit[1].OlderThan # None =>
           /\ fs[p].modTime > Crit[1].OlderThan[1] => p \notin ScannedPaths
           /\ fs[p].modTime = Crit[1].OlderThan[1] /\ PassBut(p, 2)
              => p \in ScannedPaths

\* C26 witness: a recursive scan under both cutoffs at the second clock
\* reading rejected a file modified at the first and admitted one modified
\* at the second.
C26_Witness ==
  /\ Walked
  /\ Crit # None
  /\ Crit[1].NewerThan = Some(2)
  /\ Crit[1].OlderThan = Some(2)
  /\ fs[PathA].modTime = 1
  /\ PathA \in Entries \ ScannedPaths
  /\ fs[PathB].modTime = 2
  /\ PathB \in ScannedPaths

\* One of the patterns matches the base name or the full path of p.
GlobHit(patterns, p) ==
  \E i \in 1..Len(patterns) :
    GlobMatch(patterns[i], Base(p)) \/ GlobMatch(patterns[i], p)

\* C27: with include patterns given, every admitted entry matches one of
\* them with its base name or its full path; an entry whose base name or
\* full path matches an exclude pattern is rejected, also when it matches an
\* include pattern.
C27_IncludeThenExclude ==
  Scanned /\ Target \in DOMAIN fs /\ Crit # None =>
    \A p \in Entries :
      /\ Crit[1].Include # <<>> /\ p \in ScannedPaths => GlobHit(Crit[1].Include, p)
      /\ GlobHit(Crit[1].Exclude, p) => p \notin ScannedPaths

\* C27 witness: a recursive scan with an include pattern for full paths and
\* an exclude pattern for a base name admitted a file by its full path and
\* rejected one that matches both patterns.
C27_Witness ==
  /\ Walked
  /\ Crit # None
  /\ Crit[1].Include = <<<<"/", "r", "/", "?">>>>
  /\ Crit[1].Exclude = <<<<"a">>>>
  /\ PathB \in ScannedPaths
  /\ ~GlobMatch(Crit[1].Include[1], Base(PathB))
  /\ GlobHit(Crit[1].Include, PathA)
  /\ PathA \in Entries \ ScannedPaths

\* The invocations of the callback: <<i, k>> is the k-th for candidate i.
Invocations ==
  UNION {{<<i, k>> : k \in 1..Len(cbLog[i])} : i \in 1..Len(files)}

\* The invocations that were given an error.
FailedInvocations == {x \in Invocations : cbLog[x[1]][x[2]].err # Nil}

\* Delete has returned to performDeletion.
BatchDone == proc[Caller].pc = "done" /\ cfg.entry = "Delete" /\ cfg.callback

\* C30: when the batch is over the error list holds one element for each
\* invocation of the callback with an error, with that invocation's path
\* and error, however the workers interleaved; the successes reported are
\* the invocations without an error, and successes and failures add up to
\* the number of candidates.
C30_NoLostError ==
  BatchDone =>
    /\ Len(errors) = Cardinality(FailedInvocations)
    /\ \A x \in FailedInvocations :
         Cardinality({k \in 1..Len(errors) : errors[k] = cbLog[x[1]][x[2]]})
           = Cardinality({y \in FailedInvocations :
                            cbLog[y[1]][y[2]] = cbLog[x[1]][x[2]]})
    /\ successCount = Cardinality(Invocations \ FailedInvocations)
    /\ successCount + Len(errors) = Len(files)
    /\ errMu = None

\* C30 witness: a batch of regular files on two workers ended with two
\* recorded errors, the second recorded before the first.
C30_Witness ==
  /\ BatchDone
  /\ cfg.workers = 2
  /\ Len(errors) = 2
  /\ \A i \in 1..Len(files) : ~files[i].IsDir
  /\ errors[1] = cbLog[2][1]
  /\ errors[2] = cbLog[1][1]
  /\ errors[1] # errors[2]

\* C28 as claimed: the candidates handed to the Deleter hold no path the
\* configuration protects, be it a target of the command line or an entry
\* found below a target.
C28_NoProtectedCandidate ==
  proc[Caller].pc = "start" =>
    \A k \in 1..Len(files) : ~IsProtected(files[k].Path)

\* The part that holds: a target the configuration protects is not scanned,
\* so neither it nor anything below it is handed to the Deleter.
C28_ProtectedTargetSkipped ==
  proc[Caller].pc \in {"scanned", "start"} =>
    \A k \in 1..Len(flags.targets) :
      IsProtected(flags.targets[k]) =>
        \A j \in 1..Len(files) : ~InTree(files[j].Path, flags.targets[k])

\* C29 as claimed: in a run with --dry-run the tree, the staged data and
\* the records of the trash stay what they were, whatever the other flags.
C29_DryRunChangesNothing ==
  flags.dryRun => fs = ScanFS /\ trashFiles = TrashBefore /\ meta = MetaBefore

\* The part that holds: a dry run without a special command changes
\* nothing and hands nothing to the Deleter.
C29_DryRunOfTargets ==
  flags.dryRun /\ ~SpecialCommand =>
    /\ fs = ScanFS /\ trashFiles = TrashBefore /\ meta = MetaBefore
    /\ proc[Caller].pc \in {"exec", "scan", "scanned", "exit"}

\* C31 as claimed: in the directory phase of Delete, of two directory
\* candidates of different depth the deeper one is disposed of first: when
\* the disposition of the shallower has begun, that of the deeper has too.
C31_DeeperDirectoryFirst ==
  cfg.entry = "Delete" =>
    \A d, e \in DirIndices :
      Depth(files[d].Path) > Depth(files[e].Path) /\ disp[e] # "todo"
        => disp[d] # "todo"

\* The order the code keeps: of two directory candidates of different path
\* length the longer one is disposed of first.
C31_LongerDirectoryFirst ==
  cfg.entry = "Delete" =>
    \A d, e \in DirIndices :
      Len(files[d].Path) > Len(files[e].Path) /\ disp[e] # "todo"
        => disp[d] # "todo"

\* The worker count of the configuration, zero and negative counts read
\* as eight.
PoolLimit == IF cfg.workers <= 0 THEN 8 ELSE cfg.workers

\* The files whose disposition is in progress.
InProgress == {i \in FileIndices : disp[i] = "run"}

\* The workers busy with candidate i.
Holders(i) ==
  {w \in Workers : proc[w].idx = i /\ proc[w].pc \notin {"none", "recv", "exit"}}

\* The places of candidate i in the channel.
Queued(i) == {k \in 1..Len(workChan) : workChan[k] = i}

\* C32: at every moment of a Delete run the files whose disposition is in
\* progress are at most as many as the configured workers, a count of zero
\* or less standing for 8; a file is in the channel at most once, leaves it
\* when a worker takes it, is in the hands of exactly one worker while in
\* progress, and is never taken a second time.
C32_BoundedPool ==
  /\ [](cfg.entry = "Delete" =>
          /\ Cardinality(InProgress) <= PoolLimit
          /\ \A i \in FileIndices :
               /\ Cardinality(Queued(i)) <= 1
               /\ disp[i] # "todo" => Queued(i) = {}
               /\ disp[i] = "run" => Cardinality(Holders(i)) = 1
               /\ Cardinality(Holders(i)) <= 1)
  /\ [][\A i \in FileIndices :
          /\ disp[i] # "todo" => disp'[i] # "todo"
          /\ disp[i] \in {"ok", "err"} => disp'[i] = disp[i]]_vars

\* C32 witness: a worker count of zero has started eight workers, one of
\* which is disposing of a file.
C32_Witness ==
  /\ cfg.entry = "Delete"
  /\ cfg.workers = 0
  /\ \A w \in 1..8 : proc[w].pc # "none"
  /\ InProgress # {}

\* C32 witness of the bound: two workers are busy with two files at once.
C32_BothBusy ==
  /\ cfg.entry = "Delete"
  /\ cfg.workers = 2
  /\ Cardinality(InProgress) = 2

\* C37: for every candidate list and every worker count (zero, negative,
\* larger than the number of files) Delete returns in the end when every
\* filesystem call returns and the goroutines are scheduled; on the way
\* the send to the channel can always proceed, the channel is closed only
\* after the last file was sent, and no worker is left running when Delete
\* goes on to the directories.
C37_DeleteReturns ==
  /\ <>(proc[Caller].pc = "done")
  /\ [](/\ (proc[Caller].pc = "send" /\ proc[Caller].i <= Cardinality(FileIndices))
             => Len(workChan) < Cardinality(FileIndices)
        /\ proc[Caller].pc = "send" => ~chanClosed
        /\ (chanClosed /\ proc[Caller].pc = "wait")
             => proc[Caller].i > Cardinality(FileIndices)
        /\ proc[Caller].pc \in {"sort", "dirs", "dir_cb", "done"}
             => \A w \in Workers : proc[w].pc \in {"none", "exit"})

\* C37 witness: Delete has returned from a run with more workers than
\* files, every worker having exited.
C37_Witness ==
  /\ proc[Caller].pc = "done"
  /\ cfg.entry = "Delete"
  /\ FileIndices # {}
  /\ cfg.workers > Cardinality(FileIndices)
  /\ \A w \in 1..cfg.workers : proc[w].pc = "exit"

\* C37 witness of the default pool: Delete has returned from a run with a
\* worker count of zero or less, all eight workers having exited.
C37_DefaultPoolDone ==
  /\ proc[Caller].pc = "done"
  /\ cfg.workers <= 0
  /\ \A w \in 1..8 : proc[w].pc = "exit"

\* ------------------------------------------------------------------ properties of shredFile

LogAt(op, ok) ==
  {i \in 1..Len(sysLog) : sysLog[i].op = op /\ sysLog[i].ok = ok}

LogFailed == {i \in 1..Len(sysLog) : ~sysLog[i].ok}

\* The entry before the i-th is a successful op of pass k.
Follows(i, op, k) ==
  /\ i > 1
  /\ sysLog[i - 1].op = op
  /\ sysLog[i - 1].ok
  /\ sysLog[i - 1].pass = k

\* C33: shredFile makes exactly the passes 0, 1, 2 in this order, random
\* bytes in passes 0 and 2 and zero bytes in pass 1; every pass starts with
\* a seek to offset 0, writes the recorded size in consecutive chunks of at
\* most 64 KiB and ends with a sync, which comes before the next pass; the
\* file is unlinked only after three passes and three syncs without a failed
\* call, and never after a failed open, seek, write or sync.
C33_ThreePassShred ==
  /\ \A i \in 1..Len(sysLog) :
       /\ sysLog[i].pass \in 0..2 \/ sysLog[i].op \in {"close", "remove"}
       /\ \A j \in i..Len(sysLog) :
            sysLog[j].op \in {"close", "remove"} \/ sysLog[i].pass <= sysLog[j].pass
  /\ \A i \in LogAt("seek", TRUE) \cup LogAt("seek", FALSE) :
       IF sysLog[i].pass = 0 THEN Follows(i, "open", 0)
       ELSE Follows(i, "sync", sysLog[i].pass - 1)
  /\ \A i \in LogAt("write", TRUE) \cup LogAt("write", FALSE) :
       /\ sysLog[i].fill = IF sysLog[i].pass \in {0, 2} THEN "random" ELSE "zero"
       /\ sysLog[i].n > 0
       /\ sysLog[i].n <= 65536
       /\ \/ Follows(i, "seek", sysLog[i].pass) /\ sysLog[i].off = 0
          \/ /\ Follows(i, "write", sysLog[i].pass)
             /\ sysLog[i].off = sysLog[i - 1].off + sysLog[i - 1].n
  /\ \A i \in LogAt("sync", TRUE) \cup LogAt("sync", FALSE) :
       IF shr.size = 0 THEN Follows(i, "seek", sysLog[i].pass)
       ELSE /\ Follows(i, "write", sysLog[i].pass)
            /\ sysLog[i - 1].off + sysLog[i - 1].n = shr.size
  /\ \A i \in LogAt("remove", TRUE) \cup LogAt("remove", FALSE) :
       /\ LogFailed \subseteq {i}
       /\ {sysLog[j].pass : j \in LogAt("sync", TRUE)} = {0, 1, 2}
       /\ Cardinality(LogAt("sync", TRUE)) = 3
       /\ Cardinality(LogAt("seek", TRUE)) = 3
  /\ (\E i \in LogFailed : sysLog[i].op \in {"open", "seek", "write", "sync"})
       => /\ LogAt("remove", TRUE) \cup LogAt("remove", FALSE) = {}
          /\ shr.pc = "return"
          /\ shr.err # "nil"
          /\ LogAt("open", TRUE) # {} => shr.path \in DOMAIN fs
  /\ LogAt("remove", TRUE) # {} => shr.path \notin DOMAIN fs
  /\ (shr.pc = "return" /\ shr.err = "nil") => LogAt("remove", TRUE) # {}

\* C33 witness: shredFile has returned nil for a file recorded with two
\* buffers and a byte: nine writes in three passes, and the file is gone.
C33_Witness ==
  /\ shr.pc = "return"
  /\ shr.err = "nil"
  /\ shr.size = 2 * BufLen + 1
  /\ Cardinality(LogAt("write", TRUE)) = 9
  /\ shr.path \notin DOMAIN fs

\* C33 witness of a failure: the sync of the last pass failed, shredFile
\* returned the error and the file is still there.
C33_SyncFailed ==
  /\ shr.pc = "return"
  /\ shr.err = ErrSync
  /\ \E i \in LogFailed : sysLog[i].op = "sync" /\ sysLog[i].pass = 2
  /\ shr.path \in DOMAIN fs

\* ------------------------------------------------------------------ properties of softDelete

\* C34: a Deleter without --shred and without a trash manager removes each
\* regular-file candidate from its path: no worker ever runs MoveToTrash
\* or shredFile, the trash stays without staged data and without records,
\* and when Delete has returned and every report of its callback carried no
\* error, none of the regular-file candidates is in the tree.
C34_NoTrashRemovesDirectly ==
  (cfg.entry = "Delete" /\ ~cfg.shred /\ ~cfg.trash) =>
    /\ stageCalls = 0
    /\ trashFiles = <<>>
    /\ meta = <<>>
    /\ \A w \in Workers :
         proc[w].pc \in {"none", "recv", "remove", "callback", "err_lock",
                         "err_append", "exit"}
    /\ (/\ proc[Caller].pc = "done"
        /\ cfg.callback
        /\ \A i \in 1..Len(files) : Len(cbLog[i]) = 1 /\ cbLog[i][1].err = Nil)
         => \A i \in FileIndices : files[i].Path \notin DOMAIN fs

\* C34 witness: Delete, without a trash manager, has returned from two
\* regular files, both reported without error and both gone.
C34_Witness ==
  /\ cfg.entry = "Delete"
  /\ ~cfg.shred
  /\ ~cfg.trash
  /\ cfg.callback
  /\ proc[Caller].pc = "done"
  /\ Cardinality({files[i].Path : i \in FileIndices}) = 2
  /\ \A i \in 1..Len(files) : Len(cbLog[i]) = 1 /\ cbLog[i][1].err = Nil
  /\ \A i \in FileIndices : files[i].Path \notin DOMAIN fs

\* ------------------------------------------------------------------ properties of ParseSize, ParseDuration

\* What the call of the parser fn returned, when it has returned.
Returned(fn) == {r \in {parsed[i].r : i \in 1..Len(parsed)} : parsed[1].fn = fn}

\* The exponent k of 1024^k that the claim gives a unit, in either case.
PowerOf(u) ==
  IF u = <<>> THEN 0
  ELSE CASE ToUpper(u)[1] = "B" -> 0
         [] ToUpper(u)[1] = "K" -> 1
         [] ToUpper(u)[1] = "M" -> 2
         [] ToUpper(u)[1] = "G" -> 3
         [] ToUpper(u)[1] = "T" -> 4

\* The number d times 1024^k, cut to an integer.
ExactSize(d, k) ==
  DivSmall(Shl(Number(d[1] \o d[2]), 10 * k), 10^Len(d[2])).q

HasSpace(s) == \E i \in 1..Len(s) : IsSpace(s[i])

\* C35 as claimed: for a decimal number followed by nothing or by one of
\* the units B, K, KB, M, MB, G, GB, T, TB in either case ParseSize returns
\* the number times 1024^k cut to an integer, and for any other input
\* (white space aside) it returns an error.
C35_ParseSizeExact ==
  \A r \in Returned("ParseSize") :
    IF \E d \in Decimals, u \in SizeSuffixes : input = Numeral(d) \o u
    THEN \A d \in Decimals, u \in SizeSuffixes :
           input = Numeral(d) \o u =>
             r.err = Nil /\ ~r.neg /\ r.val = ExactSize(d, PowerOf(u))
    ELSE HasSpace(input) \/ r.err # Nil

\* The number has at most 15 digits and its product with 1024^k is below 2^63.
SizeInRange(d, k) ==
  /\ Len(Number(d[1] \o d[2])) <= 15
  /\ BigLess(ExactSize(d, k), Two63)

\* What holds of ParseSize: the result is exact for numbers of up to 15
\* digits whose product is below 2^63; white space around the number and
\* before the unit is ignored; every other input is an error.
C35_ExactInRange ==
  \A r \in Returned("ParseSize") :
    LET t == TrimSpace(input)
    IN IF \E d \in Decimals, u \in SizeSuffixes, g \in {<<>>, <<" ">>} :
            t = Numeral(d) \o g \o u
       THEN \A d \in Decimals, u \in SizeSuffixes, g \in {<<>>, <<" ">>} :
              (t = Numeral(d) \o g \o u /\ SizeInRange(d, PowerOf(u))) =>
                r.err = Nil /\ ~r.neg /\ r.val = ExactSize(d, PowerOf(u))
       ELSE r.err # Nil

\* ParseSize has returned a negative size, or the greatest int64, for a
\* number of terabytes.
C35_Overflow ==
  \E r \in Returned("ParseSize") :
    /\ input = <<"9", "9", "9", "9", "9", "9", "9", "T">>
    /\ r.err = Nil
    /\ r.val \in {Two63, Dec(Two63)}

\* The length in seconds that the claim gives a unit.
SecondsOf(u) ==
  CASE u = <<"s">> -> 1
    [] u = <<"m">> -> 60
    [] u = <<"h">> -> 3600
    [] u = <<"d">> -> 86400
    [] u = <<"w">> -> 604800
    [] u = <<"m", "o">> -> 2592000
    [] u = <<"y">> -> 31536000

\* The number d times the unit, in nanoseconds, cut to an integer.
ExactDuration(d, u) ==
  DivSmall(Shl10(MulSmall(Number(d[1] \o d[2]), SecondsOf(u)), 9),
           10^Len(d[2])).q

\* The units that ParseDuration does not know, in the inputs.
NotUnits ==
  {u \in UnknownSuffixes \cup SizeSuffixes :
     u # <<>> /\ ToLower(u) \notin DurationSuffixes \cup LongSuffixes}

\* C36 as claimed: for a number followed by one of s, m, h, d, w, mo, y
\* ParseDuration returns the number times the length of the unit (a day of
\* 24 hours, a week of 7 days, a month of 30 days, a year of 365 days), and
\* it returns an error for a number followed by an unknown unit and for an
\* input that starts with a letter.
C36_ParseDurationExact ==
  \A r \in Returned("ParseDuration") :
    /\ \A d \in Decimals, u \in DurationSuffixes :
         input = Numeral(d) \o u =>
           r.err = Nil /\ ~r.neg /\ r.val = ExactDuration(d, u)
    /\ \A d \in Decimals, u \in NotUnits :
         input = Numeral(d) \o u => r.err # Nil
    /\ (input # <<>> /\ (IsLower(input[1]) \/ IsLower(ToLower(<<input[1]>>)[1])))
         => r.err # Nil

\* The number is whole or ends in a half, and its product with the unit is
\* below 2^63 nanoseconds.
DurationInRange(d, u) ==
  /\ d[2] \in {<<>>, <<"5">>}
  /\ Len(Number(d[1] \o d[2])) <= 15
  /\ BigLess(ExactDuration(d, u), Two63)

\* What holds of ParseDuration: the same, for whole numbers and halves whose
\* product with the unit is below 2^63 nanoseconds (the product of another
\* fraction is rounded as a float64: 1.1y is four nanoseconds too long).
C36_ExactInRange ==
  \A r \in Returned("ParseDuration") :
    /\ \A d \in Decimals, u \in DurationSuffixes :
         (input = Numeral(d) \o u /\ DurationInRange(d, u)) =>
           r.err = Nil /\ ~r.neg /\ r.val = ExactDuration(d, u)
    /\ \A d \in Decimals, u \in NotUnits :
         input = Numeral(d) \o u => r.err # Nil
    /\ (input # <<>> /\ (IsLower(input[1]) \/ IsLower(ToLower(<<input[1]>>)[1])))
         => r.err # Nil

\* ParseDuration has returned a negative duration, or the greatest int64,
\* for 293 years.
C36_Overflow ==
  \E r \in Returned("ParseDuration") :
    /\ input = <<"2", "9", "3", "y">>
    /\ r.err = Nil
    /\ r.val \in {Two63, Dec(Two63)}

\* ------------------------------------------------------------------ properties of the trash store

\* The staged names that the record k points to.
BodiesOf(k) ==
  {n \in DOMAIN trashFiles : meta[k].TrashPath = Join(TrashDir, n)}

\* C38: between the calls of a client that runs MoveToTrash, Restore,
\* AutoCleanup and Empty one at a time, no call of the filesystem failing,
\* every record has its staged data, every staged name has exactly one
\* record, and the record of the staged name n is the file n.json.
C38_TrashConsistent ==
  proc[Caller].pc = "idle" =>
    /\ \A k \in DOMAIN meta :
         \E n \in BodiesOf(k) : k = n \o <<".", "j", "s", "o", "n">>
    /\ \A n \in DOMAIN trashFiles :
         /\ Cardinality({k \in DOMAIN meta : n \in BodiesOf(k)}) = 1
         /\ n \o <<".", "j", "s", "o", "n">> \in DOMAIN meta

\* C38 witness: after a stage, a restore and another stage have returned
\* without error the trash holds one entry.
C38_Witness ==
  /\ proc[Caller].pc = "idle"
  /\ ops = 3
  /\ hist[1].op = "stage"
  /\ hist[1].err = Nil
  /\ hist[2].op = "restore"
  /\ hist[2].err = Nil
  /\ Cardinality(DOMAIN trashFiles) = 1
  /\ Cardinality(DOMAIN meta) = 1

\* C38 witness of the other two calls: a cleanup that removed an entry has
\* returned after a stage, and the trash is empty.
C38_Evicted ==
  /\ proc[Caller].pc = "idle"
  /\ Len(hist) = 2
  /\ hist[1].op = "cleanup"
  /\ hist[2].op = "stage"
  /\ hist[2].err = Nil
  /\ trashFiles = <<>>
  /\ meta = <<>>

\* ------------------------------------------------------------------ properties of the copy fallback

\* A call of MoveToTrash that used copyPath is about to return.
FallbackReturns == StageReturns /\ cfg.xdev

\* What holds of every such call: a failed copy leaves the original and the
\* records as they were; a failed removal of the original leaves the records
\* as they were; and nil is returned only when the original is gone and the
\* copy is staged under its record.
FallbackOutcome ==
  /\ proc[Caller].err = ErrMove =>
       fs = hist[1].fs /\ meta = hist[1].meta
  /\ proc[Caller].err = ErrRemoveOriginal => meta = hist[1].meta
  /\ proc[Caller].err = Nil =>
       /\ proc[Caller].path \notin DOMAIN fs
       /\ proc[Caller].name \in DOMAIN trashFiles
       /\ proc[Caller].name \o <<".", "j", "s", "o", "n">> \in DOMAIN meta

\* C39 as claimed: with the copy fallback, a failed copy leaves the original
\* untouched, writes no record and returns an error; a failed removal of the
\* original returns an error, writes no record, and the staged copy is
\* deleted.
C39_FallbackDeletesCopy ==
  FallbackReturns =>
    /\ FallbackOutcome
    /\ proc[Caller].err = ErrRemoveOriginal =>
         proc[Caller].name \notin DOMAIN trashFiles

\* C39 amended: as above, but the staged copy is deleted unless its removal
\* fails too, which MoveToTrash does not notice.
C39_FallbackTriesToDeleteCopy ==
  FallbackReturns =>
    /\ FallbackOutcome
    /\ (proc[Caller].err = ErrRemoveOriginal
          /\ proc[Caller].name \in DOMAIN trashFiles)
         => faults >= hist[1].faults + 2

\* C39 witness: the removal of the original has failed, the copy has been
\* deleted again and the original is still there.
C39_Witness ==
  /\ FallbackReturns
  /\ proc[Caller].err = ErrRemoveOriginal
  /\ proc[Caller].name \notin DOMAIN trashFiles
  /\ proc[Caller].path \in DOMAIN fs
  /\ faults = hist[1].faults + 1

\* C39 witness of the first half: the copy has failed.
C39_CopyFailed ==
  /\ FallbackReturns
  /\ proc[Caller].err = ErrMove
  /\ fs = hist[1].fs

\* ------------------------------------------------------------------ properties of countdownWithAbort

\* countdownWithAbort has returned.
CountdownReturned == cd.caller \in {"returned", "aborted", "deleting"} /\ cd.result # <<>>

\* C40 as claimed: when SIGINT or SIGTERM was delivered between signal.Notify
\* and the return of countdownWithAbort, it returns false, and
\* performDeletion is not started.
C40_SignalAborts ==
  /\ (CountdownReturned /\ cd.delivered > 0) => cd.result = <<FALSE>>
  /\ (cd.caller = "deleting" /\ cd.result # <<>>) => cd.delivered = 0

\* What holds instead: when the caller or the goroutine has received the
\* signal from sigChan, countdownWithAbort returns false, and
\* performDeletion is started only after it returned true.
C40_ReceivedAborts ==
  /\ (CountdownReturned /\ cd.received > 0) => cd.result = <<FALSE>>
  /\ (cd.caller = "deleting" /\ cd.result # <<>>) => cd.result = <<TRUE>>
  /\ cd.caller = "aborted" => cd.result = <<FALSE>>

\* The signal lost: the deletion has started with the signal still in the
\* channel, which nobody reads any more.
C40_SignalLost ==
  /\ cd.caller = "deleting"
  /\ cd.result = <<TRUE>>
  /\ sigChan # <<>>
  /\ ~cd.notify

\* An abort through the goroutine: it received the signal, and the caller
\* got false from done.
C40_AbortedByTimer ==
  /\ cd.caller = "aborted"
  /\ cd.timer = "exit"
  /\ cd.received = 1
  /\ sigChan = <<>>

====
